---- MODULE Spec2Model ----
(***************************************************************************)
(* Earley-based PromQL completion engine of instrumentation-tools:         *)
(* grammar, items, state sets, chart, the predict/scan/complete engine,    *)
(* the lexer adapter and the incremental re-parse; the metric index the    *)
(* completer reads and the scrapers update; the completion prefix.         *)
(*                                                                         *)
(* Specifications.  Spec: one engine of a small grammar under all queries  *)
(* of a few tokens.  SelectorSpec: one engine of the latest PromQL grammar *)
(* under queries with label matchers.  IndexSpec: the index under          *)
(* concurrent updates and reads.  PrefixSpec: getPrefix under all texts.   *)
(* CompleterSpec: Completer.Complete on one engine and a scraped index,    *)
(* from the typed text to the sorted list of matches.  MatchSpec: the loop *)
(* of the completer over any short list of suggested types.  TypesSpec:    *)
(* GetValidTerminalTypesAtStateSet on state sets put together by hand.     *)
(* LexSpec: extractWords on queries the lexer recovers in.                 *)
(*                                                                         *)
(* Conventions.  Go slices are 0-indexed, TLA+ sequences 1-indexed: state  *)
(* set k of the chart is chart[k+1], token k is words[k+1], item index i   *)
(* of a state set is items[i+1].  originatingIndex, RulePos, chartIndex,   *)
(* setIndex and ItemId keep the Go (0-based) values.  A nil pointer to a   *)
(* completionContext is the reference 0; a non-nil one is an index into    *)
(* the heap ctxs.  A nil *string is the value Nil.                         *)
(***************************************************************************)
EXTENDS Integers, Sequences, FiniteSets, TLC

(***************************************************************************)
(* Bounds of the model.                                                    *)
(***************************************************************************)
\* The number of tokens handed to one engine over all its calls.
MaxInput == 4

\* The number of lexemes of a selector query, and the number of calls made
\* with selector queries on one engine.
MaxSelectorLen == 12

MaxSelectorCalls == 2

Nil == "<nil>"

(***************************************************************************)
(* Token types (luthor.go) and symbols (grammar.go).                       *)
(***************************************************************************)
ID == "identifier"
METRIC_ID == "metric-identifier"
METRIC_LABEL_SUBTYPE == "metric-label-identifier"
ARITHMETIC == "arithmetic"
OPERATOR == "operator"
AGGR_OP == "aggregator_operation"
AGGR_KW == "aggregator_keyword"
LEFT_BRACE == "leftbrace"
RIGHT_BRACE == "rightbrace"
LEFT_PAREN == "leftparen"
COMMA == "comma"
RIGHT_PAREN == "rightparen"
STRING_T == "string"
NUM == "number"
EOF == "EOF"
COMPARISION == "comparision"
LABELMATCH == "label-match"
KEYWORD == "keyword"
BOOL_KW == "bool-keyword"
OFFSET_KW == "offset-keyword"
LEFT_BRACKET == "leftbracket"
RIGHT_BRACKET == "rightbracket"
DURATION == "duration"
\* the subtype of the FunctionIdentifier terminal (promql.go)
FUNCTION_ID == "function-identifier"

PREDICT_STATE == "predict"
SCAN_STATE == "scan"
COMPLETE_STATE == "complete"

\* nonTerminal{name, root}
NewNonTerminal(name, root) ==
    [nt |-> TRUE, name |-> name, root |-> root, tokenType |-> "", tokenSubType |-> Nil]

\* terminal{tokenType}
NewTerminal(name) ==
    [nt |-> FALSE, name |-> "", root |-> FALSE, tokenType |-> name, tokenSubType |-> Nil]

\* terminal{tokenType, &subtype}
NewTerminalWithSubType(name, subtype) ==
    [nt |-> FALSE, name |-> "", root |-> FALSE, tokenType |-> name, tokenSubType |-> subtype]

isTerminal(sym) == ~sym.nt

\* terminal.isMatchingTerminal / nonTerminal.isMatchingTerminal
isMatchingTerminal(sym, tt) ==
    IF sym.nt THEN FALSE
    ELSE sym.tokenType = tt \/ (sym.tokenSubType # Nil /\ sym.tokenSubType = tt)

getType_noSubType(sym) ==
    IF sym.nt THEN Nil ELSE sym.tokenType

\* terminal.getType / nonTerminal.getType (Nil for a non-terminal)
getType(sym) ==
    IF sym.nt THEN Nil
    ELSE IF sym.tokenSubType # Nil THEN sym.tokenSubType ELSE sym.tokenType

NewRule(left, right) == [left |-> left, right |-> right]

Eof == NewTerminal(EOF)

(***************************************************************************)
(* Grammars.  NewGrammar numbers the rules by their position; rule i of    *)
(* the sequence has grammarRuleId i-1.                                     *)
(***************************************************************************)
\* earley_test.go: the left-recursive arithmetic grammar of the unit tests
newTestGrammar ==
    LET P == NewNonTerminal("P", TRUE)
        S == NewNonTerminal("S", FALSE)
        M == NewNonTerminal("M", FALSE)
        T == NewNonTerminal("T", FALSE)
        a == NewTerminal("a")
        b == NewTerminal("b")
        plus == NewTerminal("+")
        multi == NewTerminal("*")
    IN << NewRule(P, <<S>>),
          NewRule(S, <<S, plus, M>>),
          NewRule(S, <<M>>),
          NewRule(M, <<M, multi, T>>),
          NewRule(M, <<T>>),
          NewRule(T, <<a>>),
          NewRule(T, <<b>>) >>

\* pq/autocomplete/earley/promql.go
promQLGrammar ==
    LET Expression == NewNonTerminal("expression", TRUE)
        MetricExpression == NewNonTerminal("metric-expression", FALSE)
        AggrExpression == NewNonTerminal("aggr-expression", FALSE)
        LabelsExpression == NewNonTerminal("labels-expression", FALSE)
        LabelValueExpression == NewNonTerminal("label-value-expression", FALSE)
        AggrCallExpression == NewNonTerminal("aggr-call-expression", FALSE)
        MetricLabelArgs == NewNonTerminal("func-args", FALSE)
        BinaryExpression == NewNonTerminal("binary-expression", FALSE)
        MetricIdentifier == NewTerminalWithSubType(ID, METRIC_ID)
        MetricLabelIdentifier == NewTerminalWithSubType(ID, METRIC_LABEL_SUBTYPE)
        AggregatorOp == NewTerminal(AGGR_OP)
        AggregateKeyword == NewTerminal(AGGR_KW)
        Arithmetic == NewTerminal(ARITHMETIC)
        Operator == NewTerminal(OPERATOR)
        LBrace == NewTerminal(LEFT_BRACE)
        RBrace == NewTerminal(RIGHT_BRACE)
        Comma == NewTerminal(COMMA)
        LParen == NewTerminal(LEFT_PAREN)
        RParen == NewTerminal(RIGHT_PAREN)
        Str == NewTerminal(STRING_T)
        Num == NewTerminal(NUM)
    IN << NewRule(Expression, <<MetricExpression, Eof>>),
          NewRule(Expression, <<BinaryExpression, Eof>>),
          NewRule(Expression, <<AggrExpression, Eof>>),
          NewRule(MetricExpression, <<MetricIdentifier>>),
          NewRule(MetricExpression, <<MetricIdentifier, LabelValueExpression>>),
          NewRule(AggrExpression, <<AggregatorOp, AggrCallExpression, AggregateKeyword, LabelsExpression>>),
          NewRule(AggrExpression, <<AggregatorOp, AggregateKeyword, LabelsExpression, AggrCallExpression>>),
          NewRule(AggrCallExpression, <<LParen, MetricExpression, RParen>>),
          NewRule(LabelsExpression, <<LParen, MetricLabelArgs, RParen>>),
          NewRule(MetricLabelArgs, <<MetricLabelArgs, Comma, MetricLabelIdentifier>>),
          NewRule(MetricLabelArgs, <<MetricLabelIdentifier>>),
          NewRule(LabelValueExpression, <<LBrace, MetricLabelIdentifier, Operator, Str, RBrace>>),
          NewRule(BinaryExpression, <<BinaryExpression, Arithmetic, Num>>),
          NewRule(BinaryExpression, <<Num, Arithmetic, Num>>) >>

\* A grammar with an empty production (NewRule(Y) with no symbols): P -> Y Y a, Y -> .
nullableGrammar ==
    LET P == NewNonTerminal("P", TRUE)
        Y == NewNonTerminal("Y", FALSE)
    IN << NewRule(P, <<Y, Y, NewTerminal("a")>>),
          NewRule(Y, << >>) >>

\* A grammar in which two alternatives reach the same terminal with different
\* contexts: P -> A '{' | metric B,  A -> metric,  B -> '{'.
forkGrammar ==
    LET P == NewNonTerminal("P", TRUE)
        A == NewNonTerminal("A", FALSE)
        B == NewNonTerminal("B", FALSE)
        MetricIdentifier == NewTerminalWithSubType(ID, METRIC_ID)
        LBrace == NewTerminal(LEFT_BRACE)
    IN << NewRule(P, <<A, LBrace>>),
          NewRule(P, <<MetricIdentifier, B>>),
          NewRule(A, <<MetricIdentifier>>),
          NewRule(B, <<LBrace>>) >>

\* promq/autocomplete/earley/promql.go: the grammar with vector and matrix
\* selectors, label matchers, binary expressions and function calls
promQLGrammar_promq ==
    LET Root == NewNonTerminal("root", TRUE)
        Expression == NewNonTerminal("expression", FALSE)
        MetricExpression == NewNonTerminal("metric-expression", FALSE)
        AggrExpression == NewNonTerminal("aggr-expression", FALSE)
        BinaryExpression == NewNonTerminal("binary-expression", FALSE)
        FuncExpression == NewNonTerminal("function-expression", FALSE)
        MatrixSelector == NewNonTerminal("matrix-selector", FALSE)
        VectorSelector == NewNonTerminal("vector-selector", FALSE)
        LabelsExpression == NewNonTerminal("labels-expression", FALSE)
        LabelsMatchExpression == NewNonTerminal("labels-match-expression", FALSE)
        LabelValueExpression == NewNonTerminal("label-value-expression", FALSE)
        AggrCallExpression == NewNonTerminal("aggr-call-expression", FALSE)
        MetricLabelArgs == NewNonTerminal("func-args", FALSE)
        OffsetExpression == NewNonTerminal("offset-expression", FALSE)
        FunctionCallBody == NewNonTerminal("function-call-body", FALSE)
        FunctionCallArgs == NewNonTerminal("function-call-args", FALSE)
        ScalarTypeExpression == NewNonTerminal("scalar-type-expression", FALSE)
        VectorTypeExpression == NewNonTerminal("vector-type-expression", FALSE)
        MatrixTypeExpression == NewNonTerminal("matrix-type-expression", FALSE)
        ScalarBinaryExpression == NewNonTerminal("scalar-binary-expression", FALSE)
        VectorBinaryExpression == NewNonTerminal("vector-binary-expression", FALSE)
        MetricIdentifier == NewTerminalWithSubType(ID, METRIC_ID)
        MetricLabelIdentifier == NewTerminalWithSubType(ID, METRIC_LABEL_SUBTYPE)
        FunctionIdentifier == NewTerminalWithSubType(ID, FUNCTION_ID)
        AggregatorOp == NewTerminal(AGGR_OP)
        AggregateKeyword == NewTerminal(AGGR_KW)
        BoolKeyword == NewTerminalWithSubType(KEYWORD, BOOL_KW)
        OffsetKeyword == NewTerminalWithSubType(KEYWORD, OFFSET_KW)
        Arithmetic == NewTerminal(ARITHMETIC)
        LabelMatchOperator == NewTerminalWithSubType(OPERATOR, LABELMATCH)
        Comparision == NewTerminalWithSubType(OPERATOR, COMPARISION)
        LBrace == NewTerminal(LEFT_BRACE)
        RBrace == NewTerminal(RIGHT_BRACE)
        LBracket == NewTerminal(LEFT_BRACKET)
        RBracket == NewTerminal(RIGHT_BRACKET)
        Comma == NewTerminal(COMMA)
        LParen == NewTerminal(LEFT_PAREN)
        RParen == NewTerminal(RIGHT_PAREN)
        Str == NewTerminal(STRING_T)
        Num == NewTerminal(NUM)
        Duration == NewTerminal(DURATION)
    IN << NewRule(Root, <<Expression, Eof>>),
          NewRule(Expression, <<MetricExpression>>),
          NewRule(Expression, <<BinaryExpression>>),
          NewRule(Expression, <<AggrExpression>>),
          NewRule(Expression, <<FuncExpression>>),
          NewRule(Expression, <<Num>>),
          NewRule(ScalarTypeExpression, <<ScalarBinaryExpression>>),
          NewRule(ScalarTypeExpression, <<Num>>),
          NewRule(VectorTypeExpression, <<VectorSelector>>),
          NewRule(VectorTypeExpression, <<VectorBinaryExpression>>),
          NewRule(VectorTypeExpression, <<AggrExpression>>),
          NewRule(MatrixTypeExpression, <<MatrixSelector>>),
          NewRule(MetricExpression, <<VectorSelector>>),
          NewRule(MetricExpression, <<MatrixSelector>>),
          NewRule(VectorSelector, <<MetricIdentifier>>),
          NewRule(VectorSelector, <<MetricIdentifier, LabelsMatchExpression>>),
          NewRule(VectorSelector, <<MetricIdentifier, OffsetExpression>>),
          NewRule(VectorSelector, <<MetricIdentifier, LabelsMatchExpression, OffsetExpression>>),
          NewRule(MatrixSelector, <<MetricIdentifier, LBracket, Duration, RBracket>>),
          NewRule(MatrixSelector, <<MetricIdentifier, LabelsMatchExpression, LBracket, Duration, RBracket>>),
          NewRule(MatrixSelector, <<MetricIdentifier, LBracket, Duration, RBracket, OffsetExpression>>),
          NewRule(MatrixSelector, <<MetricIdentifier, LabelsMatchExpression, LBracket, Duration, RBracket,
                                    OffsetExpression>>),
          NewRule(OffsetExpression, <<OffsetKeyword, Duration>>),
          NewRule(AggrExpression, <<AggregatorOp, AggrCallExpression>>),
          NewRule(AggrExpression, <<AggregatorOp, AggrCallExpression, AggregateKeyword, LabelsExpression>>),
          NewRule(AggrExpression, <<AggregatorOp, AggregateKeyword, LabelsExpression, AggrCallExpression>>),
          NewRule(AggrCallExpression, <<LParen, VectorTypeExpression, RParen>>),
          NewRule(AggrCallExpression, <<LParen, FuncExpression, RParen>>),
          NewRule(LabelsExpression, <<LParen, MetricLabelArgs, RParen>>),
          NewRule(LabelsExpression, <<LParen, RParen>>),
          NewRule(MetricLabelArgs, <<MetricLabelArgs, Comma, MetricLabelIdentifier>>),
          NewRule(MetricLabelArgs, <<MetricLabelIdentifier>>),
          NewRule(LabelsMatchExpression, <<LBrace, LabelValueExpression, RBrace>>),
          NewRule(LabelValueExpression, <<MetricLabelIdentifier, LabelMatchOperator, Str>>),
          NewRule(LabelValueExpression, <<LabelValueExpression, Comma, MetricLabelIdentifier,
                                          LabelMatchOperator, Str>>),
          NewRule(BinaryExpression, <<ScalarBinaryExpression>>),
          NewRule(BinaryExpression, <<VectorBinaryExpression>>),
          NewRule(ScalarBinaryExpression, <<ScalarTypeExpression, Arithmetic, ScalarTypeExpression>>),
          NewRule(ScalarBinaryExpression, <<ScalarTypeExpression, Comparision, BoolKeyword,
                                            ScalarTypeExpression>>),
          NewRule(VectorBinaryExpression, <<ScalarTypeExpression, Arithmetic, VectorTypeExpression>>),
          NewRule(VectorBinaryExpression, <<ScalarTypeExpression, Comparision, BoolKeyword,
                                            VectorTypeExpression>>),
          NewRule(VectorBinaryExpression, <<VectorTypeExpression, Arithmetic, ScalarTypeExpression>>),
          NewRule(VectorBinaryExpression, <<VectorTypeExpression, Comparision, BoolKeyword,
                                            ScalarTypeExpression>>),
          NewRule(VectorBinaryExpression, <<VectorTypeExpression, Arithmetic, VectorTypeExpression>>),
          NewRule(VectorBinaryExpression, <<VectorTypeExpression, Comparision, BoolKeyword,
                                            VectorTypeExpression>>),
          NewRule(FuncExpression, <<FunctionIdentifier, FunctionCallBody>>),
          NewRule(FunctionCallBody, <<LParen, RParen>>),
          NewRule(FunctionCallBody, <<LParen, FunctionCallArgs, RParen>>),
          NewRule(FunctionCallArgs, <<Expression>>),
          NewRule(FunctionCallArgs, <<FunctionCallArgs, Comma, Expression>>) >>

GrammarNames == {"test", "promql", "nullable", "fork"}

\* Grammar.rules of the grammar an engine was constructed with
Rules(gn) ==
    CASE gn = "test" -> newTestGrammar
      [] gn = "promql" -> promQLGrammar
      [] gn = "nullable" -> nullableGrammar
      [] gn = "fork" -> forkGrammar
      [] gn = "promq" -> promQLGrammar_promq

(***************************************************************************)
(* Earley items (item.go).  Rule is the position of the rule in the        *)
(* grammar (grammarRuleId + 1); from is the list of ItemIds; ctx is a      *)
(* reference into the heap of completion contexts (0 is nil).              *)
(***************************************************************************)
NoId == <<0, 0>>

newPredictItem(r, index, from, ctx) ==
    [id |-> NoId, Rule |-> r, RulePos |-> 0, originatingIndex |-> index,
     cause |-> PREDICT_STATE, from |-> from, terminalSymbolsConsumed |-> 0, ctx |-> ctx]

newScanItem(sourceState, index, from, ctx) ==
    [id |-> NoId, Rule |-> sourceState.Rule, RulePos |-> sourceState.RulePos + 1,
     originatingIndex |-> index, cause |-> SCAN_STATE, from |-> from,
     terminalSymbolsConsumed |-> sourceState.terminalSymbolsConsumed + 1, ctx |-> ctx]

newCompleteItem_countAdvanced(sourceState, from, ctx) ==
    [id |-> NoId, Rule |-> sourceState.Rule, RulePos |-> sourceState.RulePos + 1,
     originatingIndex |-> sourceState.originatingIndex, cause |-> COMPLETE_STATE,
     from |-> from, terminalSymbolsConsumed |-> sourceState.terminalSymbolsConsumed + 1,
     ctx |-> ctx]

newCompleteItem(sourceState, from, ctx) ==
    [id |-> NoId, Rule |-> sourceState.Rule, RulePos |-> sourceState.RulePos + 1,
     originatingIndex |-> sourceState.originatingIndex, cause |-> COMPLETE_STATE,
     from |-> from, terminalSymbolsConsumed |-> sourceState.terminalSymbolsConsumed,
     ctx |-> ctx]

\* uint64(grammarRuleId)<<32 | uint64(RulePos)<<16 | uint64(originatingIndex).
\* The packing is injective while RulePos and originatingIndex are below
\* 2^16, which every reachable item of the model is; the packed word is
\* kept as the triple of its three fields.
badhash_withFrom(item) ==
    <<item.Rule - 1, item.RulePos, item.originatingIndex, item.from>>

badhash(item) ==
    <<item.Rule - 1, item.RulePos, item.originatingIndex>>

\* GrammarRule.length of the item's rule
RuleLength(G, item) == Len(G[item.Rule].right)

isCompleted(G, item) == item.RulePos = RuleLength(G, item)

\* Go index i of the right-hand side, Eof past its end
GetRightSymbolByIndex(G, item, i) ==
    IF i < Len(G[item.Rule].right) THEN G[item.Rule].right[i + 1] ELSE Eof

GetRightSymbolByRulePos(G, item) == GetRightSymbolByIndex(G, item, item.RulePos)

DoesTokenTypeMatch(G, item, tkn) ==
    isMatchingTerminal(GetRightSymbolByIndex(G, item, item.RulePos), tkn.Type)

GetRightSymbolTypeByRulePos(G, item) ==
    getType(GetRightSymbolByIndex(G, item, item.RulePos))

(***************************************************************************)
(* State sets (stateset.go).                                               *)
(***************************************************************************)
NewStateSet == [stateNo |-> 0, items |-> << >>, itemSet |-> {}]

\* the boolean StateSet.Add returns
AddReturns(s, item) == badhash(item) \notin s.itemSet

Add_idOfNext(s, item) ==
    IF badhash(item) \in s.itemSet
    THEN s
    ELSE [s EXCEPT !.itemSet = @ \cup {badhash(item)},
                   !.items = Append(@, [item EXCEPT !.id = <<s.stateNo, Len(s.items) + 1>>])]

Add_noCheck(s, item) ==
    [s EXCEPT !.itemSet = @ \cup {badhash(item)},
              !.items = Append(@, [item EXCEPT !.id = <<s.stateNo, Len(s.items)>>])]

\* the state set after StateSet.Add(item)
Add(s, item) ==
    IF badhash(item) \in s.itemSet
    THEN s
    ELSE [s EXCEPT !.itemSet = @ \cup {badhash(item)},
                   !.items = Append(@, [item EXCEPT !.id = <<s.stateNo, Len(s.items)>>])]

RECURSIVE AddAll(_, _)
\* the successive Add calls of one predict or complete loop
AddAll(s, newItems) ==
    IF newItems = << >> THEN s
    ELSE AddAll(Add(s, Head(newItems)), Tail(newItems))

\* the candidates of StateSet.findItemsToComplete, in insertion order
findItemsToComplete(G, s, symbol) ==
    SelectSeq(s.items,
              LAMBDA item : /\ ~isCompleted(G, item)
                            /\ G[item.Rule].right[item.RulePos + 1].nt
                            /\ G[item.Rule].right[item.RulePos + 1].name = symbol.name)

(***************************************************************************)
(* Grammar operations (grammar.go).                                        *)
(***************************************************************************)
RuleIds(G) == [i \in 1..Len(G) |-> i]

\* Grammar.recognizedRules: the rules whose left equals the symbol, in order
recognizedRules_first(G, s) ==
    SubSeq(SelectSeq(RuleIds(G), LAMBDA r : G[r].left = s), 1, 1)

recognizedRules(G, s) == SelectSeq(RuleIds(G), LAMBDA r : G[r].left = s)

\* Grammar.initialStateSet
initialStateSet(G) ==
    LET roots == SelectSeq(RuleIds(G), LAMBDA r : G[r].left.root)
        seeds == [i \in 1..Len(roots) |->
                    [id |-> NoId, Rule |-> roots[i], RulePos |-> 0, originatingIndex |-> 0,
                     cause |-> PREDICT_STATE, from |-> << >>,
                     terminalSymbolsConsumed |-> 0, ctx |-> 0]]
    IN AddAll(NewStateSet, seeds)

(***************************************************************************)
(* Chart (chart.go): a sequence of state sets.                             *)
(***************************************************************************)
initializeChart(G) == << [initialStateSet(G) EXCEPT !.stateNo = 0] >>

invalidateStartingAt_fromStart(c, index) ==
    [i \in 1..Len(c) |->
        IF i - 1 >= index - 1 THEN [NewStateSet EXCEPT !.stateNo = i - 1] ELSE c[i]]

\* earleyChart.invalidateStartingAt: putAt(i, NewStateSet()) for index <= i < Length
invalidateStartingAt(c, index) ==
    [i \in 1..Len(c) |->
        IF i - 1 >= index THEN [NewStateSet EXCEPT !.stateNo = i - 1] ELSE c[i]]

RECURSIVE resizeChart(_, _)
\* Earley.resizeChart: append fresh state sets while the chart is shorter than size
resizeChart(c, size) ==
    IF Len(c) < size
    THEN resizeChart(Append(c, [NewStateSet EXCEPT !.stateNo = Len(c)]), size)
    ELSE c

\* earleyChart.GetState(k).items, for k within the chart
ItemsAt(c, k) == c[k + 1].items

(***************************************************************************)
(* Completion contexts (completer.go).                                     *)
(***************************************************************************)
EmptyContext == [metric |-> Nil, metricLabel |-> Nil, metricLabelValues |-> {}]

\* completionContext.BuildContext: the record after the in-place update
BuildContext(c, tokenType, token) ==
    CASE tokenType = METRIC_ID -> [c EXCEPT !.metric = token.Val]
      [] tokenType = METRIC_LABEL_SUBTYPE -> [c EXCEPT !.metricLabel = token.Val]
      [] tokenType = STRING_T -> [c EXCEPT !.metricLabelValues = @ \cup {token.Val}]
      [] OTHER -> c

(***************************************************************************)
(* The engine (earley.go).  An engine value e is the record of its chart   *)
(* and of the heap of completion contexts its items point into.            *)
(***************************************************************************)
\* NewEarleyParser(g)
NewEarleyParser(G) == [chart |-> initializeChart(G), ctxs |-> << >>]

\* Earley.predict: one predicted item per rule of the next symbol, added to
\* the current set with the predicting item's context
predict(G, e, state, chartIndex, fromItems) ==
    LET nextSymbol == GetRightSymbolByRulePos(G, state)
        rs == recognizedRules(G, nextSymbol)
        newItems == [i \in 1..Len(rs) |->
                        newPredictItem(rs[i], chartIndex, fromItems, state.ctx)]
    IN [e EXCEPT !.chart[chartIndex + 1] = AddAll(@, newItems)]

scan_originAtChartIndex(G, e, state, chartIndex, fromItems, token) ==
    IF chartIndex + 1 >= Len(e.chart) \/ ~DoesTokenTypeMatch(G, state, token)
    THEN e
    ELSE LET fresh == state.ctx = 0
             ref == IF fresh THEN Len(e.ctxs) + 1 ELSE state.ctx
             old == IF fresh THEN EmptyContext ELSE e.ctxs[state.ctx]
             built == BuildContext(old, GetRightSymbolTypeByRulePos(G, state), token)
             heap == IF fresh THEN Append(e.ctxs, built)
                              ELSE [e.ctxs EXCEPT ![ref] = built]
             nextItem == newScanItem(state, chartIndex, fromItems, ref)
         IN [chart |-> [e.chart EXCEPT ![chartIndex + 2] = Add(@, nextItem)],
             ctxs |-> heap]

scan_unguarded(G, e, state, chartIndex, fromItems, token) ==
    IF chartIndex + 1 >= Len(e.chart)
    THEN e
    ELSE LET fresh == state.ctx = 0
             ref == IF fresh THEN Len(e.ctxs) + 1 ELSE state.ctx
             old == IF fresh THEN EmptyContext ELSE e.ctxs[state.ctx]
             built == BuildContext(old, GetRightSymbolTypeByRulePos(G, state), token)
             heap == IF fresh THEN Append(e.ctxs, built)
                              ELSE [e.ctxs EXCEPT ![ref] = built]
             nextItem == newScanItem(state, state.originatingIndex, fromItems, ref)
         IN [chart |-> [e.chart EXCEPT ![chartIndex + 2] = Add(@, nextItem)],
             ctxs |-> heap]

\* Earley.scan: nothing when there is no next set or the token does not
\* match; otherwise the item's context (a new one when it has none) is
\* updated in place and the advanced item is added to the next set
scan(G, e, state, chartIndex, fromItems, token) ==
    IF chartIndex + 1 >= Len(e.chart) \/ ~DoesTokenTypeMatch(G, state, token)
    THEN e
    ELSE LET fresh == state.ctx = 0
             ref == IF fresh THEN Len(e.ctxs) + 1 ELSE state.ctx
             old == IF fresh THEN EmptyContext ELSE e.ctxs[state.ctx]
             built == BuildContext(old, GetRightSymbolTypeByRulePos(G, state), token)
             heap == IF fresh THEN Append(e.ctxs, built)
                              ELSE [e.ctxs EXCEPT ![ref] = built]
             nextItem == newScanItem(state, state.originatingIndex, fromItems, ref)
         IN [chart |-> [e.chart EXCEPT ![chartIndex + 2] = Add(@, nextItem)],
             ctxs |-> heap]

complete_completedContext(G, e, state, chartIndex) ==
    LET originalSet == e.chart[state.originatingIndex + 1]
        itemsToComplete == findItemsToComplete(G, originalSet, G[state.Rule].left)
        newItems == [i \in 1..Len(itemsToComplete) |->
                        newCompleteItem(itemsToComplete[i],
                                        <<state.id, itemsToComplete[i].id>>,
                                        state.ctx)]
    IN [e EXCEPT !.chart[chartIndex + 1] = AddAll(@, newItems)]

\* Earley.complete: the items of the origin set waiting for the completed
\* rule's left side, each advanced and added to the current set; the new item
\* gets the context of the waiting item
complete(G, e, state, chartIndex) ==
    LET originalSet == e.chart[state.originatingIndex + 1]
        itemsToComplete == findItemsToComplete(G, originalSet, G[state.Rule].left)
        newItems == [i \in 1..Len(itemsToComplete) |->
                        newCompleteItem(itemsToComplete[i],
                                        <<state.id, itemsToComplete[i].id>>,
                                        itemsToComplete[i].ctx)]
    IN [e EXCEPT !.chart[chartIndex + 1] = AddAll(@, newItems)]

\* which of the three operations the loop of PartialParse applies to an item
Operation(G, item) ==
    IF ~isCompleted(G, item)
    THEN IF ~isTerminal(GetRightSymbolByRulePos(G, item)) THEN "predict" ELSE "scan"
    ELSE "complete"

\* one iteration of the inner loop of PartialParse: item setIndex of set
\* chartIndex is processed against the token
ProcessItem(G, e, chartIndex, setIndex, token) ==
    LET item == ItemsAt(e.chart, chartIndex)[setIndex + 1]
        fromItems == << item.id >>
    IN CASE Operation(G, item) = "predict" -> predict(G, e, item, chartIndex, fromItems)
         [] Operation(G, item) = "scan" -> scan(G, e, item, chartIndex, fromItems, token)
         [] OTHER -> complete(G, e, item, chartIndex)

RECURSIVE PartialParseLoop(_, _, _, _, _)
\* the two loops of PartialParse run to their end: tokens[chartIndex..] are
\* consumed, token k against set k
PartialParseLoop(G, e, tokens, chartIndex, setIndex) ==
    IF chartIndex >= Len(tokens) THEN e
    ELSE IF setIndex >= Len(ItemsAt(e.chart, chartIndex))
         THEN PartialParseLoop(G, e, tokens, chartIndex + 1, 0)
         ELSE PartialParseLoop(G, ProcessItem(G, e, chartIndex, setIndex, tokens[chartIndex + 1]),
                               tokens, chartIndex, setIndex + 1)

\* PartialParse(tokens, 0) on a newly constructed engine
FullParse(G, tokens) ==
    LET e0 == NewEarleyParser(G)
        e1 == [e0 EXCEPT !.chart = resizeChart(@, Len(tokens) + 1)]
    IN PartialParseLoop(G, e1, tokens, 0, 0)

(***************************************************************************)
(* Suggested token types (chart.go).                                       *)
(***************************************************************************)
RECURSIVE TerminalTypesLoop(_, _, _, _, _)
\* the loop of GetValidTerminalTypesAtStateSet over the items from index i
\* on; types is the list built so far and seen the keys of terminalTypes
TerminalTypesLoop(G, items, wordIndex, i, acc) ==
    IF i > Len(items) THEN acc.types
    ELSE LET item == items[i]
             rhs == G[item.Rule].right
         IN IF item.terminalSymbolsConsumed = wordIndex + 1
            THEN TerminalTypesLoop(G, items, wordIndex, i + 1, acc)
            ELSE IF Len(rhs) <= item.RulePos
            THEN TerminalTypesLoop(G, items, wordIndex, i + 1, acc)
            ELSE IF rhs[item.RulePos + 1].nt
            THEN TerminalTypesLoop(G, items, wordIndex, i + 1, acc)
            ELSE LET tkn == getType(rhs[item.RulePos + 1])
                     tknCtx == [TokenType |-> tkn,
                                ctx |-> IF tkn # METRIC_ID THEN item.ctx ELSE 0]
                 IN IF tkn \in acc.seen
                    THEN TerminalTypesLoop(G, items, wordIndex, i + 1, acc)
                    ELSE TerminalTypesLoop(G, items, wordIndex, i + 1,
                                           [types |-> Append(acc.types, tknCtx),
                                            seen |-> acc.seen \cup {tkn}])

\* earleyChart.GetValidTerminalTypesAtStateSet
GetValidTerminalTypesAtStateSet_countAtIndex(G, c, wordIndex) ==
    TerminalTypesLoop(G, ItemsAt(c, wordIndex), wordIndex - 1, 1,
                      [types |-> << >>, seen |-> {}])

GetValidTerminalTypesAtStateSet_lastFirst(G, c, wordIndex) ==
    TerminalTypesLoop(G, [i \in 1..Len(ItemsAt(c, wordIndex)) |->
                             ItemsAt(c, wordIndex)[Len(ItemsAt(c, wordIndex)) + 1 - i]],
                      wordIndex, 1, [types |-> << >>, seen |-> {}])

GetValidTerminalTypesAtStateSet(G, c, wordIndex) ==
    TerminalTypesLoop(G, ItemsAt(c, wordIndex), wordIndex, 1,
                      [types |-> << >>, seen |-> {}])

(***************************************************************************)
(* The lexer adapter (luthor.go).  A query is a sequence of lexemes, each  *)
(* one character wide; the lexeme at string offset i is query[i+1].  The   *)
(* underlying lexer emits one item per lexeme, an ERROR item at a lexeme   *)
(* it cannot lex, and an EOF item at the end of the string.                *)
(***************************************************************************)
Lexeme(type, val) == [Typ |-> "ITEM", Type |-> type, Val |-> val]

\* an unterminated string literal
BadLexeme == [Typ |-> "ERROR", Type |-> "unknown", Val |-> "\"x"]

\* a lexeme the lexer takes at the start of a string and rejects after other
\* lexemes, as a number is rejected inside the braces of a selector
ContextLexeme == [Typ |-> "CONTEXT", Type |-> NUM, Val |-> "1"]

\* the i-th item (from 0) parser.Lex(query) hands out
NextItem(query, i) ==
    IF i < Len(query)
    THEN [Typ |-> IF query[i + 1].Typ = "CONTEXT"
                  THEN (IF i = 0 THEN "ITEM" ELSE "ERROR")
                  ELSE query[i + 1].Typ,
          Type |-> query[i + 1].Type,
          Val |-> query[i + 1].Val, Pos |-> i, End |-> i + 1]
    ELSE [Typ |-> "EOF", Type |-> EOF, Val |-> "", Pos |-> Len(query), End |-> Len(query)]

\* createTokenFromItem: StartPos carries the offset, EndPos does not
createTokenFromItem(item, offset) ==
    [Val |-> item.Val, Type |-> item.Type,
     StartPos |-> item.Pos + offset, EndPos |-> item.End]

RECURSIVE extractTokensLoop(_, _, _, _)
\* extractTokensWithOffset from its i-th item on, words being the tokens so far
extractTokensLoop(query, offset, i, words) ==
    LET currItem == NextItem(query, i)
    IN IF currItem.Typ = "EOF"
       THEN Append(words, createTokenFromItem(currItem, offset))
       ELSE IF currItem.Typ = "ERROR"
       THEN IF i = 0
            THEN words
            ELSE words \o extractTokensLoop(SubSeq(query, currItem.Pos + 1, Len(query)),
                                            currItem.Pos, 0, << >>)
       ELSE extractTokensLoop(query, offset, i + 1,
                              Append(words, createTokenFromItem(currItem, offset)))

extractTokensWithOffset(query, offset) == extractTokensLoop(query, offset, 0, << >>)

extractWords(query) == extractTokensWithOffset(query, 0)

\* Tokhan.equals
equals_never(t, t2) == FALSE

equals(t, t2) == t.Val = t2.Val /\ t.StartPos = t2.StartPos /\ t.EndPos = t2.EndPos

RECURSIVE CompareLoop(_, _, _)
\* the loop of Tokens.Compare from index i on: the index it returns at, or
\* -1 when the loop runs to its end
CompareLoop(ws, tks2, i) ==
    IF i >= Len(ws) THEN -1
    ELSE IF i >= Len(tks2) \/ ~equals(ws[i + 1], tks2[i + 1]) THEN i
    ELSE CompareLoop(ws, tks2, i + 1)

\* Tokens.Compare: the i of `for i, t := range ws` is a variable of the loop,
\* the i after the loop is the one declared before it and still 0
Compare(ws, tks2) ==
    LET i == 0
        returned == CompareLoop(ws, tks2, 0)
    IN IF returned # -1 THEN returned
       ELSE IF Len(tks2) > Len(ws) THEN 0 - i
       ELSE 0

(***************************************************************************)
(* Incremental re-parse: the engine keeps the tokens of its last input in  *)
(* words, and a new input is parsed from the longest common token prefix.  *)
(***************************************************************************)
RECURSIVE CommonPrefix(_, _, _)
\* the number of leading positions from i on at which both lists hold equal tokens
CommonPrefix(ws, tks, i) ==
    IF i < Len(ws) /\ i < Len(tks) /\ equals(ws[i + 1], tks[i + 1])
    THEN CommonPrefix(ws, tks, i + 1)
    ELSE i

\* the engine and input words once the sets after the common prefix L are
\* invalidated: sets 0..L are kept, set L is the one parsing resumes at
Reuse(e, ws, L) ==
    [chart |-> invalidateStartingAt(e.chart, L + 1), ctxs |-> e.ctxs, words |-> SubSeq(ws, 1, L)]

\* the head of PartialParse: the tokens are appended to the input words and
\* the chart is grown to one set more than the words
PartialParseEntry(e, ws, tokens) ==
    [chart |-> resizeChart(e.chart, Len(ws \o tokens) + 1), ctxs |-> e.ctxs,
     words |-> ws \o tokens]

(***************************************************************************)
(* Inputs of the model.                                                    *)
(***************************************************************************)
Alphabet(gn) ==
    CASE gn = "test" -> {Lexeme("a", "a"), Lexeme("+", "+"), Lexeme("*", "*")}
      [] gn = "promql" -> {Lexeme(ID, "m"), Lexeme(LEFT_BRACE, "{"),
                           Lexeme(AGGR_OP, "sum"), Lexeme(LEFT_PAREN, "(")}
      [] gn = "nullable" -> {Lexeme("a", "a")}
      [] gn = "fork" -> {Lexeme(ID, "m"), Lexeme(LEFT_BRACE, "{")}

\* the queries of at most n lexemes; a lexeme that cannot be lexed ends the
\* token list, so it is only put last
Queries(gn, n) ==
    UNION { { s : s \in [1..k -> Alphabet(gn)] } \cup
            { Append(s, BadLexeme) : s \in [1..k -> Alphabet(gn)] } : k \in 0..n }

(***************************************************************************)
(* The metric index (package prom): a store of metric -> label -> values,  *)
(* a filter of the hashes of the inserted series, one RWMutex.             *)
(***************************************************************************)
\* labels.MetricName
MetricName == "__name__"

\* The number of goroutines that call UpdateMetric.
NumScrapers == 2

Scrapers == 1..NumScrapers

\* the parsed series a scrape hands to UpdateMetric: label sets with and
\* without a metric name
SeriesUniverse ==
    { (MetricName :> "m1") @@ ("a" :> "x"),
      (MetricName :> "m1") @@ ("a" :> "y") @@ ("b" :> "x"),
      (MetricName :> "m2") @@ ("b" :> "y"),
      (MetricName :> "m2") @@ ("b" :> "x"),
      ("a" :> "x") }

\* Labels.Hash: a 64-bit hash of the names and values of all labels; it is
\* not injective, and here the two series of m2 have the same hash
Hash(ls) ==
    CASE ls = (MetricName :> "m1") @@ ("a" :> "x") -> 11
      [] ls = (MetricName :> "m1") @@ ("a" :> "y") @@ ("b" :> "x") -> 12
      [] ls = (MetricName :> "m2") @@ ("b" :> "y") -> 13
      [] ls = (MetricName :> "m2") @@ ("b" :> "x") -> 13
      [] OTHER -> 14

\* NewIndex: the store and the filter of a new index
NewIndex == [store |-> << >>, metricBloomFilter |-> {}]

\* sync.RWMutex: RLock succeeds while no writer holds the lock
RLock_unguarded(mu) == TRUE

RLock(mu) == mu.writer = 0

\* sync.RWMutex: Lock succeeds while nobody holds the lock
Lock(mu) == mu.writer = 0 /\ mu.readers = 0

\* indexer.isMetricPresent
isMetricPresent_never(filter, hash) == FALSE

isMetricPresent(filter, hash) == hash \in filter

\* UpdateMetric: n, ok := ls[labels.MetricName]
hasName_always(ls) == TRUE

hasName(ls) == MetricName \in DOMAIN ls

\* UpdateMetric: the n of n, ok := ls[labels.MetricName]; a missing key gives
\* the empty string
nameOf(ls) == IF MetricName \in DOMAIN ls THEN ls[MetricName] ELSE ""

\* UpdateMetric: i.store[n] is made if it is missing
insertMetric(st, n) ==
    IF n \in DOMAIN st THEN st ELSE st @@ (n :> << >>)

\* UpdateMetric, one iteration of its loop: i.store[n][l] is made if it is
\* missing, then v is inserted
insertLabel_replace(st, n, l, v) ==
    [st EXCEPT ![n] = (l :> {v}) @@ @]

insertLabel(st, n, l, v) ==
    [st EXCEPT ![n] = IF l \in DOMAIN @ THEN [@ EXCEPT ![l] = @ \cup {v}]
                                        ELSE @ @@ (l :> {v})]

\* indexer.GetMetricNames
GetMetricNames(st) == DOMAIN st

\* indexer.GetStoredDimensionsForMetric; the keys of a missing map are none
GetStoredDimensionsForMetric(st, metricName) ==
    IF metricName \in DOMAIN st THEN DOMAIN st[metricName] ELSE {}

\* indexer.GetStoredValuesForMetricAndDimension; nil is the empty set
GetStoredValuesForMetricAndDimension(st, metricName, dimension) ==
    IF metricName \notin DOMAIN st THEN {}
    ELSE IF dimension \in DOMAIN st[metricName] THEN st[metricName][dimension]
         ELSE {}

\* the metric names and label names the completer asks the index about
MetricNames == {"m1", "m2"}

Dimensions == {"a", "b"}

\* what a read of the given kind returns from the store st
Read(st, kind, metricName, dimension) ==
    CASE kind = "names" -> GetMetricNames(st)
      [] kind = "dimensions" -> GetStoredDimensionsForMetric(st, metricName)
      [] OTHER -> GetStoredValuesForMetricAndDimension(st, metricName, dimension)

(***************************************************************************)
(* The completion prefix: a query is a sequence of runes, a Go string is   *)
(* the sequence of their UTF-8 bytes.                                      *)
(***************************************************************************)
\* The number of runes of a query.
MaxQueryLen == 4

\* PromQLTokenSeparators
PromQLTokenSeparators == {" ", "[", "]", "{", "}", "(", ")", "=", "!", "~", ","}

\* the runes of the queries: a letter, two separators, a rune of two bytes
QueryRunes == {"a", "{", " ", "U+00E9"}

\* the UTF-8 bytes of a rune
utf8(r) == IF r = "U+00E9" THEN <<"0xC3", "0xA9">> ELSE <<r>>

RECURSIVE string(_)
\* the Go string of a sequence of runes: its bytes
string(runes) ==
    IF runes = << >> THEN << >> ELSE utf8(Head(runes)) \o string(Tail(runes))

RECURSIVE getPrefixLoop(_, _)
\* the loop of getPrefix at index i: i runs over the bytes of the query and
\* indexes its runes; an index past the runes is a run-time panic
getPrefixLoop(q, i) ==
    IF i < 0 THEN [panicked |-> FALSE, val |-> string(q)]
    ELSE IF i >= Len(q) THEN [panicked |-> TRUE, val |-> << >>]
    ELSE IF q[i + 1] \in PromQLTokenSeparators
         THEN [panicked |-> FALSE,
               val |-> SubSeq(string(q), i + 2, Len(string(q)))]
         ELSE getPrefixLoop(q, i - 1)

\* getPrefix
getPrefix(q) ==
    IF Len(string(q)) = 0 THEN [panicked |-> FALSE, val |-> << >>]
    ELSE getPrefixLoop(q, Len(string(q)) - 1)

\* the queries of at most n runes
TypedQueries(n) == UNION { [1..k -> QueryRunes] : k \in 0..n }

(***************************************************************************)
(* The completer (completer.go): the suggested token types are mapped to   *)
(* concrete suggestions from the index and from the static tables of       *)
(* promql.go, filtered by the completion prefix and sorted by value.       *)
(***************************************************************************)
\* the token type of the Logical terminal (promql.go)
LOGICAL == "logical"

\* the bytes of the Go strings the completer filters and compares
Bytes(s) ==
    CASE s = "" -> <<>>
      [] s = "m" -> <<109>>
      [] s = "5" -> <<53>>
      [] s = "m1" -> <<109, 49>>
      [] s = "m2" -> <<109, 50>>
      [] s = "a" -> <<97>>
      [] s = "b" -> <<98>>
      [] s = "x" -> <<120>>
      [] s = "y" -> <<121>>
      [] s = "\"x\"" -> <<34, 120, 34>>
      [] s = "\"y\"" -> <<34, 121, 34>>
      [] s = "sum" -> <<115, 117, 109>>
      [] s = "max" -> <<109, 97, 120>>
      [] s = "min" -> <<109, 105, 110>>
      [] s = "avg" -> <<97, 118, 103>>
      [] s = "stddev" -> <<115, 116, 100, 100, 101, 118>>
      [] s = "stdvar" -> <<115, 116, 100, 118, 97, 114>>
      [] s = "count" -> <<99, 111, 117, 110, 116>>
      [] s = "count_values" -> <<99, 111, 117, 110, 116, 95, 118, 97, 108, 117, 101, 115>>
      [] s = "bottomk" -> <<98, 111, 116, 116, 111, 109, 107>>
      [] s = "topk" -> <<116, 111, 112, 107>>
      [] s = "quantile" -> <<113, 117, 97, 110, 116, 105, 108, 101>>
      [] s = "by" -> <<98, 121>>
      [] s = "without" -> <<119, 105, 116, 104, 111, 117, 116>>
      [] s = "bool" -> <<98, 111, 111, 108>>
      [] s = "offset" -> <<111, 102, 102, 115, 101, 116>>
      [] s = "+" -> <<43>>
      [] s = "-" -> <<45>>
      [] s = "*" -> <<42>>
      [] s = "/" -> <<47>>
      [] s = "and" -> <<97, 110, 100>>
      [] s = "or" -> <<111, 114>>
      [] s = "unless" -> <<117, 110, 108, 101, 115, 115>>
      [] s = "=" -> <<61>>
      [] s = "!=" -> <<33, 61>>
      [] s = "=~" -> <<61, 126>>
      [] s = "!~" -> <<33, 126>>
      [] s = "s" -> <<115>>
      [] s = "h" -> <<104>>
      [] s = "d" -> <<100>>
      [] s = "w" -> <<119>>

RECURSIVE lessBytes(_, _)
\* Go's a < b on strings: the bytes are compared from the left
lessBytes(a, b) ==
    IF b = << >> THEN FALSE
    ELSE IF a = << >> THEN TRUE
    ELSE IF Head(a) # Head(b) THEN Head(a) < Head(b)
    ELSE lessBytes(Tail(a), Tail(b))

\* strings.HasPrefix
HasPrefix(s, p) ==
    /\ Len(Bytes(p)) <= Len(Bytes(s))
    /\ SubSeq(Bytes(s), 1, Len(Bytes(p))) = Bytes(p)

\* autocomplete.FilterPrefix with ignoreCase false
FilterPrefix(stringSet, p) ==
    IF p = "" THEN stringSet ELSE { s \in stringSet : HasPrefix(s, p) }

RECURSIVE List(_)
\* sets.String.List: the members in ascending order
List(stringSet) ==
    IF stringSet = {} THEN << >>
    ELSE LET least == CHOOSE s \in stringSet :
                         \A t \in stringSet \ {s} : lessBytes(Bytes(s), Bytes(t))
         IN << least >> \o List(stringSet \ {least})

\* strconv.Quote of a label value
Quote(v) == IF v = "x" THEN "\"x\"" ELSE "\"y\""

\* autocomplete.Enquote
Enquote(stringSet) == { Quote(v) : v \in stringSet }

\* strconv.Atoi(p) returns no error: an optional sign, then digits
Atoi_ok(p) ==
    LET b == Bytes(p)
        digits == IF b # << >> /\ Head(b) \in {43, 45} THEN Tail(b) ELSE b
    IN /\ digits # << >>
       /\ \A i \in 1..Len(digits) : digits[i] \in 48..57

\* the static tables of promql.go: their keys
aggregators ==
    {"sum", "max", "min", "avg", "stddev", "stdvar", "count", "count_values",
     "bottomk", "topk", "quantile"}

aggregateKeywords == {"by", "without"}

arithmaticOperators == {"+", "-", "*", "/"}

logicalOperators == {"and", "or", "unless"}

labelMatchOperators == {"=", "!=", "=~", "!~"}

timeUnits == {"s", "m", "h", "d", "w", "y"}

\* NewPartialMatch; the detail of a match is left out, no value and no order
\* depends on it
NewPartialMatch(name, kind) == [Value |-> name, Kind |-> kind]

\* the matches of the strings of a list, in its order
MatchesOf(list, kind) == [i \in 1..Len(list) |-> NewPartialMatch(list[i], kind)]

RECURSIVE insertSorted(_, _)
\* m goes before the first match whose value is smaller than its own
insertSorted(sorted, m) ==
    IF sorted = << >> THEN << m >>
    ELSE IF lessBytes(Bytes(Head(sorted).Value), Bytes(m.Value))
    THEN << m >> \o sorted
    ELSE << Head(sorted) >> \o insertSorted(Tail(sorted), m)

RECURSIVE sortFrom(_, _)
\* the matches from the i-th on are inserted one by one
sortFrom(matches, sorted) ==
    IF matches = << >> THEN sorted
    ELSE sortFrom(Tail(matches), insertSorted(sorted, Head(matches)))

\* sort.Slice(matches, value of i > value of j): the values descend
sortSlice_unsorted(matches) == matches

sortSlice(matches) == sortFrom(matches, << >>)

\* GenerateSuggestions, the switch of one iteration of its loop: the matches
\* the suggestion s adds; a method of a nil context is a run-time panic
switchTokenType(st, h, s, p) ==
    LET ctx == h[s.ctx]
        some(list) == [panicked |-> FALSE, val |-> list]
        none == some(<< >>)
        panic == [panicked |-> TRUE, val |-> << >>]
        t == s.TokenType
    IN CASE t = METRIC_LABEL_SUBTYPE ->
              IF s.ctx = 0 THEN panic
              ELSE IF ctx.metric # Nil
              THEN some(MatchesOf(List(FilterPrefix(
                        GetStoredDimensionsForMetric(st, ctx.metric), p)), "metric-label"))
              ELSE none
         [] t = METRIC_ID ->
              some(MatchesOf(List(FilterPrefix(GetMetricNames(st), p)), "metric-id"))
         [] t = STRING_T ->
              IF s.ctx = 0 THEN panic
              ELSE IF ctx.metric # Nil /\ ctx.metricLabel # Nil
              THEN some(MatchesOf(List(FilterPrefix(Enquote(
                        GetStoredValuesForMetricAndDimension(st, ctx.metric, ctx.metricLabel)),
                        p)), "metric-id"))
              ELSE none
         [] t = AGGR_OP -> some(MatchesOf(List(FilterPrefix(aggregators, p)), "aggr-operation"))
         [] t = AGGR_KW -> some(MatchesOf(List(FilterPrefix(aggregateKeywords, p)), "aggr-keyword"))
         [] t = ARITHMETIC -> some(MatchesOf(List(FilterPrefix(arithmaticOperators, p)), "arithmetic"))
         [] t = LOGICAL -> some(MatchesOf(List(FilterPrefix(logicalOperators, p)), "logical"))
         [] t = LABELMATCH -> some(MatchesOf(List(FilterPrefix(labelMatchOperators, p)), "label-match"))
         [] t = OFFSET_KW -> some(<< NewPartialMatch("offset", "keyword") >>)
         [] t = BOOL_KW -> some(<< NewPartialMatch("bool", "keyword") >>)
         [] t = DURATION ->
              IF Atoi_ok(p) THEN some(MatchesOf(List(timeUnits), "time-unit")) ELSE none
         [] OTHER -> none

RECURSIVE matchLoop(_, _, _, _, _, _)
\* GenerateSuggestions, its loop from the i-th suggestion on: the matches of
\* the suggestion are appended and the slice is sorted
matchLoop(st, h, suggested, p, i, matches) ==
    IF i > Len(suggested) THEN [panicked |-> FALSE, val |-> matches]
    ELSE LET new == switchTokenType(st, h, suggested[i], p)
         IN IF new.panicked THEN [panicked |-> TRUE, val |-> << >>]
            ELSE matchLoop(st, h, suggested, p, i + 1, sortSlice(matches \o new.val))

RECURSIVE insertLabels(_, _, _)
\* UpdateMetric, its loop over the labels todo of the series ls
insertLabels(st, ls, todo) ==
    IF todo = {} THEN st
    ELSE LET l == CHOOSE l \in todo : TRUE
         IN insertLabels(insertLabel(st, nameOf(ls), l, ls[l]), ls, todo \ {l})

\* a whole call of UpdateMetric(ls) on the index ix, no other call running
UpdateMetricCall(ix, ls) ==
    IF isMetricPresent(ix.metricBloomFilter, Hash(ls)) \/ ~hasName(ls) THEN ix
    ELSE [store |-> insertLabels(insertMetric(ix.store, nameOf(ls)), ls,
                                 DOMAIN ls \ {MetricName}),
          metricBloomFilter |-> ix.metricBloomFilter \cup {Hash(ls)}]

\* the series of a scrape
Scraped ==
    << (MetricName :> "m1") @@ ("a" :> "x"),
       (MetricName :> "m1") @@ ("a" :> "y") @@ ("b" :> "x"),
       (MetricName :> "m2") @@ ("b" :> "y") >>

RECURSIVE Scrape(_, _)
\* the index after UpdateMetric was called with each series of the list
Scrape(ix, list) ==
    IF list = << >> THEN ix ELSE Scrape(UpdateMetricCall(ix, Head(list)), Tail(list))

(***************************************************************************)
(* State.                                                                  *)
(***************************************************************************)
VARIABLES
    g,           \* the grammar the engine was constructed with
    chart,       \* Earley.chart.state
    ctxs,        \* the completionContext objects the items point to
    words,       \* Earley.words
    pc,          \* "ready", "parse" (inside PartialParse), "returned", "panicked"
    tokens,      \* the tokens of the call in progress (or of the last call)
    prevTokens,  \* the tokens of the call before it
    chartIndex,  \* PartialParse: chartIndex
    setIndex,    \* PartialParse: setIndex
    suggestions, \* the list the last call returned
    spent,       \* the number of tokens handed to the engine so far
    calls,       \* the number of calls of GenerateSuggestions so far
    store,             \* indexer.store
    metricBloomFilter, \* indexer.metricBloomFilter
    metricNameMu,      \* indexer.metricNameMu: its writer and its readers
    upc,         \* each scraper's position in UpdateMetric
    series,      \* each scraper's UpdateMetric: the parameter m
    todo,        \* each scraper's UpdateMetric: the labels its loop has left
    rpc,         \* the completer's position in a read of the index
    result,      \* the read in progress, with what it returns
    completed,   \* the store as the last finished UpdateMetric left it
    inserted,    \* the series whose UpdateMetric ran to its end
    errorLog,    \* the series debug.Errorln reported as having no name
    query,       \* GenerateSuggestions: the parameter query, as runes
    pos,         \* GenerateSuggestions: the parameter pos
    prefix,      \* what getPrefix(query[0:pos]) returned
    cpc,         \* the completer's position in Completer.Complete
    autocompletePrefix, \* GenerateSuggestions: autocompletePrefix
    matches      \* the list the last call of Completer.Complete returned

engineVars == <<g, chart, ctxs, words, pc, tokens, prevTokens, chartIndex,
                setIndex, suggestions, spent, calls>>

indexVars == <<store, metricBloomFilter, metricNameMu, upc, series, todo, rpc,
               result, completed, inserted, errorLog>>

prefixVars == <<query, pos, prefix>>

completerVars == <<cpc, autocompletePrefix, matches>>

vars == <<engineVars, indexVars, prefixVars, completerVars>>

G == Rules(g)

engine == [chart |-> chart, ctxs |-> ctxs]

\* no call of getPrefix yet
PrefixInit ==
    /\ query = << >>
    /\ pos = 0
    /\ prefix = [panicked |-> FALSE, val |-> << >>]

\* no call of Completer.Complete yet
CompleterInit ==
    /\ cpc = "idle"
    /\ autocompletePrefix = ""
    /\ matches = << >>

\* no series: the parameter of a scraper that is not inside UpdateMetric
NoSeries == << >>

\* no read in progress
NoResult == [kind |-> "none", metric |-> Nil, dimension |-> Nil, value |-> {}]

\* the index of NewIndex, nobody inside it
IndexInit ==
    /\ store = NewIndex.store
    /\ metricBloomFilter = NewIndex.metricBloomFilter
    /\ metricNameMu = [writer |-> 0, readers |-> 0]
    /\ upc = [t \in Scrapers |-> "idle"]
    /\ series = [t \in Scrapers |-> NoSeries]
    /\ todo = [t \in Scrapers |-> {}]
    /\ rpc = "idle"
    /\ result = NoResult
    /\ completed = NewIndex.store
    /\ inserted = {}
    /\ errorLog = {}

Init ==
    /\ g \in GrammarNames
    /\ chart = NewEarleyParser(Rules(g)).chart
    /\ ctxs = NewEarleyParser(Rules(g)).ctxs
    /\ words = << >>
    /\ pc = "ready"
    /\ tokens = << >>
    /\ prevTokens = << >>
    /\ chartIndex = 0
    /\ setIndex = 0
    /\ suggestions = << >>
    /\ spent = 0
    /\ calls = 0
    /\ IndexInit
    /\ PrefixInit
    /\ CompleterInit

\* the entry of a parse of the tokens tks: the sets after the common prefix
\* are invalidated and PartialParse is entered at the prefix
EnterParse(tks) ==
    LET L == CommonPrefix(words, tks, 0)
        r == Reuse(engine, words, L)
        p == PartialParseEntry(r, r.words, SubSeq(tks, L + 1, Len(tks)))
    IN /\ spent' = spent + Len(tks)
       /\ calls' = calls + 1
       /\ prevTokens' = tokens
       /\ tokens' = tks
       /\ chart' = p.chart
       /\ ctxs' = p.ctxs
       /\ words' = p.words
       /\ chartIndex' = L
       /\ setIndex' = 0
       /\ pc' = "parse"
       /\ UNCHANGED <<g, suggestions, indexVars, prefixVars>>

\* GenerateSuggestions up to the loop of PartialParse: the query is lexed,
\* the sets after the common prefix are invalidated, PartialParse is entered
GenerateSuggestions ==
    /\ pc \in {"ready", "returned"}
    /\ \E q \in Queries(g, MaxInput - spent) :
          /\ spent + Len(extractWords(q)) <= MaxInput
          /\ EnterParse(extractWords(q))
    /\ UNCHANGED completerVars

\* the item the inner loop of PartialParse is at
InLoop ==
    /\ pc = "parse"
    /\ chartIndex < Len(tokens)
    /\ setIndex < Len(ItemsAt(chart, chartIndex))

CurrentItem == ItemsAt(chart, chartIndex)[setIndex + 1]

\* the engine after the operation, and the loop moves to the next item
Advance_skipping(e) ==
    /\ chart' = e.chart
    /\ ctxs' = e.ctxs
    /\ setIndex' = setIndex + 2
    /\ UNCHANGED <<g, words, pc, tokens, prevTokens, chartIndex, suggestions, spent, calls, indexVars, prefixVars, completerVars>>

Advance(e) ==
    /\ chart' = e.chart
    /\ ctxs' = e.ctxs
    /\ setIndex' = setIndex + 1
    /\ UNCHANGED <<g, words, pc, tokens, prevTokens, chartIndex, suggestions, spent, calls, indexVars, prefixVars, completerVars>>

\* the item is not completed and its next symbol is a non-terminal
Predict ==
    /\ InLoop
    /\ ~isCompleted(G, CurrentItem)
    /\ ~isTerminal(GetRightSymbolByRulePos(G, CurrentItem))
    /\ Advance(predict(G, engine, CurrentItem, chartIndex, << CurrentItem.id >>))

\* the item is not completed and its next symbol is a terminal
Scan ==
    /\ InLoop
    /\ ~isCompleted(G, CurrentItem)
    /\ isTerminal(GetRightSymbolByRulePos(G, CurrentItem))
    /\ Advance(scan(G, engine, CurrentItem, chartIndex, << CurrentItem.id >>,
                    tokens[chartIndex + 1]))

\* the item is completed
Complete ==
    /\ InLoop
    /\ isCompleted(G, CurrentItem)
    /\ Advance(complete(G, engine, CurrentItem, chartIndex))

\* the inner loop ends: the next token is taken against the next set
NextToken ==
    /\ pc = "parse"
    /\ chartIndex < Len(tokens)
    /\ setIndex >= Len(ItemsAt(chart, chartIndex))
    /\ chartIndex' = chartIndex + 1
    /\ setIndex' = 0
    /\ UNCHANGED <<g, chart, ctxs, words, pc, tokens, prevTokens, suggestions, spent, calls, indexVars, prefixVars, completerVars>>

\* the end of GetSuggestedTokenType: the types at the last token's set are
\* collected, and the debug line indexes the token values at lastTokenPos
Return ==
    /\ pc = "parse"
    /\ chartIndex >= Len(tokens)
    /\ LET lastTokenPos == IF Len(tokens) - 1 < 0 THEN 0 ELSE Len(tokens) - 1
       IN IF lastTokenPos < Len(tokens)
          THEN /\ suggestions' = GetValidTerminalTypesAtStateSet(G, chart, lastTokenPos)
               /\ pc' = "returned"
          ELSE /\ suggestions' = suggestions
               /\ pc' = "panicked"
    /\ UNCHANGED <<g, chart, ctxs, words, tokens, prevTokens, chartIndex, setIndex, spent, calls, indexVars, prefixVars, completerVars>>

Next ==
    \/ GenerateSuggestions
    \/ Predict
    \/ Scan
    \/ Complete
    \/ NextToken
    \/ Return

Spec == Init /\ [][Next]_vars

(***************************************************************************)
(* The index under scrapers that update it and a completer that reads it.  *)
(***************************************************************************)
IndexSpecInit ==
    /\ Init
    /\ g = "test"

\* Scrape: UpdateMetric(d) is called with one of the scraped series
UpdateMetric(t) ==
    /\ upc[t] = "idle"
    /\ \E m \in SeriesUniverse : series' = [series EXCEPT ![t] = m]
    /\ upc' = [upc EXCEPT ![t] = "isMetricPresent"]
    /\ UNCHANGED <<store, metricBloomFilter, metricNameMu, todo, rpc, result,
                   completed, inserted, errorLog, engineVars, prefixVars, completerVars>>

\* UpdateMetric up to its Lock: the filter is asked under the read lock, then
\* the metric name is looked up; the call returns when the hash is present or
\* the name is missing
CheckPresent(t) ==
    /\ upc[t] = "isMetricPresent"
    /\ RLock(metricNameMu)
    /\ IF isMetricPresent(metricBloomFilter, Hash(series[t])) \/ ~hasName(series[t])
       THEN /\ upc' = [upc EXCEPT ![t] = "idle"]
            /\ series' = [series EXCEPT ![t] = NoSeries]
       ELSE /\ upc' = [upc EXCEPT ![t] = "Lock"]
            /\ UNCHANGED series
    /\ errorLog' =
          IF ~isMetricPresent(metricBloomFilter, Hash(series[t])) /\ ~hasName(series[t])
          THEN errorLog \cup {series[t]}
          ELSE errorLog
    /\ UNCHANGED <<store, metricBloomFilter, metricNameMu, todo, rpc, result,
                   completed, inserted, engineVars, prefixVars, completerVars>>

\* UpdateMetric: i.metricNameMu.Lock()
TakeLock(t) ==
    /\ upc[t] = "Lock"
    /\ Lock(metricNameMu)
    /\ metricNameMu' = [metricNameMu EXCEPT !.writer = t]
    /\ upc' = [upc EXCEPT ![t] = "insert"]
    /\ UNCHANGED <<store, metricBloomFilter, series, todo, rpc, result, completed,
                   inserted, errorLog, engineVars, prefixVars, completerVars>>

\* UpdateMetric: the hash goes into the filter and the metric into the store
InsertMetric(t) ==
    /\ upc[t] = "insert"
    /\ metricBloomFilter' = metricBloomFilter \cup {Hash(series[t])}
    /\ store' = insertMetric(store, nameOf(series[t]))
    /\ todo' = [todo EXCEPT ![t] = DOMAIN series[t] \ {MetricName}]
    /\ upc' = [upc EXCEPT ![t] = "labels"]
    /\ UNCHANGED <<metricNameMu, series, rpc, result, completed, inserted,
                   errorLog, engineVars, prefixVars, completerVars>>

\* UpdateMetric: one iteration of the loop over the labels, in map order
InsertLabel(t) ==
    /\ upc[t] = "labels"
    /\ \E l \in todo[t] :
          /\ store' = insertLabel(store, nameOf(series[t]), l, series[t][l])
          /\ todo' = [todo EXCEPT ![t] = @ \ {l}]
    /\ UNCHANGED <<metricBloomFilter, metricNameMu, upc, series, rpc, result,
                   completed, inserted, errorLog, engineVars, prefixVars, completerVars>>

\* UpdateMetric: the deferred Unlock at its end
Unlock(t) ==
    /\ upc[t] = "labels"
    /\ todo[t] = {}
    /\ metricNameMu' = [metricNameMu EXCEPT !.writer = 0]
    /\ upc' = [upc EXCEPT ![t] = "idle"]
    /\ series' = [series EXCEPT ![t] = NoSeries]
    /\ completed' = store
    /\ inserted' = inserted \cup {series[t]}
    /\ UNCHANGED <<store, metricBloomFilter, todo, rpc, result, errorLog, engineVars, prefixVars, completerVars>>

\* a read of the completer up to its return value, under the read lock
ReadLocked(kind, metricName, dimension) ==
    /\ RLock(metricNameMu)
    /\ metricNameMu' = [metricNameMu EXCEPT !.readers = @ + 1]
    /\ rpc' = "RUnlock"
    /\ result' = [kind |-> kind, metric |-> metricName, dimension |-> dimension,
                  value |-> Read(store, kind, metricName, dimension)]

\* the completer calls GetMetricNames
ReadMetricNames ==
    /\ rpc = "idle"
    /\ ReadLocked("names", Nil, Nil)
    /\ UNCHANGED <<store, metricBloomFilter, upc, series, todo, completed, inserted,
                   errorLog, engineVars, prefixVars, completerVars>>

\* the completer calls GetStoredDimensionsForMetric
ReadDimensions ==
    /\ rpc = "idle"
    /\ \E n \in MetricNames : ReadLocked("dimensions", n, Nil)
    /\ UNCHANGED <<store, metricBloomFilter, upc, series, todo, completed, inserted,
                   errorLog, engineVars, prefixVars, completerVars>>

\* the completer calls GetStoredValuesForMetricAndDimension
ReadValues ==
    /\ rpc = "idle"
    /\ \E n \in MetricNames : \E l \in Dimensions : ReadLocked("values", n, l)
    /\ UNCHANGED <<store, metricBloomFilter, upc, series, todo, completed, inserted,
                   errorLog, engineVars, prefixVars, completerVars>>

\* the read returned the set the store holds, not a copy of it:
\* GetStoredValuesForMetricAndDimension returns dimensionForMetric[dimension]
\* of a metric and a label the store has, whereas the other two reads return
\* sets.StringKeySet, a new set, and a missing metric or label gives nil
ReturnsStoredSet == result.kind = "values" /\ result.value # {}

\* the deferred RUnlock of a read: the read returns to the completer, which
\* goes on to range over a stored set it was handed
RUnlock ==
    /\ rpc = "RUnlock"
    /\ metricNameMu' = [metricNameMu EXCEPT !.readers = @ - 1]
    /\ rpc' = IF ReturnsStoredSet THEN "range" ELSE "idle"
    /\ result' = IF ReturnsStoredSet THEN result ELSE NoResult
    /\ UNCHANGED <<store, metricBloomFilter, upc, series, todo, completed,
                   inserted, errorLog, engineVars, prefixVars, completerVars>>

\* what ranging over the returned stored set gives the completer.  Ranging
\* over it without the lock while UpdateMetric may insert into it is a data
\* race: the loop sees the set as it was returned or as it is now, or the
\* run-time ends the program ("concurrent map iteration and map write") when
\* an insertion into that set is under way.
rangeOverResult ==
    {[fatal |-> FALSE, seen |-> result.value],
     [fatal |-> FALSE,
      seen |-> GetStoredValuesForMetricAndDimension(store, result.metric,
                                                    result.dimension)]}
    \cup IF \E t \in Scrapers : /\ upc[t] = "labels"
                                /\ nameOf(series[t]) = result.metric
                                /\ result.dimension \in todo[t]
          THEN {[fatal |-> TRUE, seen |-> {}]}
          ELSE {}

\* the completer ranges over the set the read returned (Enquote: the loop
\* over stringSet.List()), the lock released
RangeOverResult ==
    /\ rpc = "range"
    /\ \E o \in rangeOverResult :
          /\ rpc' = IF o.fatal THEN "fatal" ELSE "ranged"
          /\ result' = [result EXCEPT !.value = o.seen]
    /\ UNCHANGED <<store, metricBloomFilter, metricNameMu, upc, series, todo, completed,
                   inserted, errorLog, engineVars, prefixVars, completerVars>>

\* the completer is done with the result of the read
ReadDone ==
    /\ rpc = "ranged"
    /\ rpc' = "idle"
    /\ result' = NoResult
    /\ UNCHANGED <<store, metricBloomFilter, metricNameMu, upc, series, todo, completed,
                   inserted, errorLog, engineVars, prefixVars, completerVars>>

IndexNext ==
    \/ \E t \in Scrapers : UpdateMetric(t)
    \/ \E t \in Scrapers : CheckPresent(t)
    \/ \E t \in Scrapers : TakeLock(t)
    \/ \E t \in Scrapers : InsertMetric(t)
    \/ \E t \in Scrapers : InsertLabel(t)
    \/ \E t \in Scrapers : Unlock(t)
    \/ ReadMetricNames
    \/ ReadDimensions
    \/ ReadValues
    \/ RUnlock
    \/ RangeOverResult
    \/ ReadDone

IndexSpec == IndexSpecInit /\ [][IndexNext]_vars

(***************************************************************************)
(* The completer computing the completion prefix of what was typed.        *)
(***************************************************************************)
PrefixSpecInit ==
    /\ Init
    /\ g = "test"

\* GenerateSuggestions: q := query[0:pos]; autocompletePrefix := getPrefix(q)
GetPrefix ==
    /\ \E q \in TypedQueries(MaxQueryLen) : \E p \in 0..Len(q) :
          /\ query' = q
          /\ pos' = p
          /\ prefix' = getPrefix(SubSeq(q, 1, p))
    /\ UNCHANGED <<engineVars, indexVars, completerVars>>

PrefixNext == GetPrefix

PrefixSpec == PrefixSpecInit /\ [][PrefixNext]_vars

(***************************************************************************)
(* Properties.                                                             *)
(***************************************************************************)
Range(seq) == {seq[i] : i \in DOMAIN seq}

\* (rule, dot, origin) of an item
Key(item) == <<item.Rule, item.RulePos, item.originatingIndex>>

\* the items of a state set, order and bookkeeping ignored
KeySet(s) == {Key(item) : item \in Range(s.items)}

\* tks is ws with exactly one more token at its end
ExtendsByOne(ws, tks) ==
    /\ Len(tks) = Len(ws) + 1
    /\ \A i \in 1..Len(ws) : equals(ws[i], tks[i])

TypesOf(list) == {list[i].TokenType : i \in DOMAIN list}

\* the suggestions of a newly constructed engine for the tokens
FreshSuggestions(tks) ==
    GetValidTerminalTypesAtStateSet(G, FullParse(G, tks).chart,
                                    IF Len(tks) - 1 < 0 THEN 0 ELSE Len(tks) - 1)

RECURSIVE DottedRules(_, _)
\* the number of (rule, dot) pairs of the rules from r on
DottedRules(rules, r) ==
    IF r > Len(rules) THEN 0
    ELSE Len(rules[r].right) + 1 + DottedRules(rules, r + 1)

\* the number of distinct (rule, dot, origin) with origin in 0..k
ItemBound(k) == DottedRules(G, 1) * (k + 1)

RECURSIVE WorkLeft(_)
\* an upper bound of the item visits left from set k on
WorkLeft(k) ==
    IF k >= Len(tokens) THEN 0 ELSE ItemBound(k) + 1 + WorkLeft(k + 1)

\* the loop variant of PartialParse
Rank == WorkLeft(chartIndex) - setIndex

\* C3: the parse ends after finitely many steps: while a parse runs, every
\* step strictly decreases a rank that never goes below zero, because a
\* state set never holds more items than there are (rule, dot, origin)
\* triples; this covers the left-recursive grammar.
C3_Terminates ==
    /\ [](pc = "parse" =>
            /\ Rank >= 0
            /\ \A k \in 0..(Len(chart) - 1) : Len(ItemsAt(chart, k)) <= ItemBound(k))
    /\ [][(pc = "parse" /\ pc' = "parse") => Rank' < Rank]_vars

\* a rule whose first right symbol is its own left side
LeftRecursive(item) ==
    /\ Len(G[item.Rule].right) > 0
    /\ G[item.Rule].right[1] = G[item.Rule].left

\* a set holding a left-recursive prediction has been processed to its end
C3_Witness ==
    /\ pc = "parse"
    /\ chartIndex < Len(tokens)
    /\ setIndex = Len(ItemsAt(chart, chartIndex))
    /\ \E item \in Range(ItemsAt(chart, chartIndex)) :
          item.RulePos = 0 /\ LeftRecursive(item)

\* C4: no call panics.
C4_NeverPanics == pc # "panicked"

\* C5: after every call the chart has exactly len(tokens) + 1 state sets.
C5_ChartLength == pc = "returned" => Len(chart) = Len(tokens) + 1

\* C6: at every moment no state set holds two items with the same
\* (rule, dot, origin).
C6_NoDuplicates ==
    \A k \in 1..Len(chart) :
        \A i, j \in DOMAIN chart[k].items :
            i # j => Key(chart[k].items[i]) # Key(chart[k].items[j])

\* a left-recursive prediction was processed: it predicted itself again and
\* the set still holds it once
C6_Witness ==
    /\ pc = "parse"
    /\ chartIndex < Len(tokens)
    /\ \E i \in 1..setIndex :
          LET item == ItemsAt(chart, chartIndex)[i]
          IN /\ item.RulePos = 0
             /\ item.originatingIndex = chartIndex
             /\ LeftRecursive(item)

\* the advanced form of a waiting item
Advanced(item) == <<item.Rule, item.RulePos + 1, item.originatingIndex>>

\* the items of set j waiting for the non-terminal left
Waiting(j, left) ==
    {w \in Range(ItemsAt(chart, j)) :
        /\ ~isCompleted(G, w)
        /\ GetRightSymbolByRulePos(G, w) = left}

\* C7: once set k is processed, for every completed item of set k with left
\* side X and origin j, every item of set j whose next symbol is X has its
\* advanced form in set k, also when j = k.
C7_CompletionClosed ==
    pc \in {"parse", "returned"} =>
        \A k \in 0..(chartIndex - 1) :
            \A c \in Range(ItemsAt(chart, k)) :
                isCompleted(G, c) =>
                    \A w \in Waiting(c.originatingIndex, G[c.Rule].left) :
                        Advanced(w) \in KeySet(chart[k + 1])

\* item is the scan-advance of an item of set k-1 whose next terminal
\* matches token k-1
IsScanAdvance(item, k) ==
    /\ k >= 1
    /\ k <= Len(tokens)
    /\ \E src \in Range(ItemsAt(chart, k - 1)) :
          /\ src.Rule = item.Rule
          /\ src.RulePos + 1 = item.RulePos
          /\ src.originatingIndex = item.originatingIndex
          /\ ~G[src.Rule].right[src.RulePos + 1].nt
          /\ \/ G[src.Rule].right[src.RulePos + 1].tokenType = tokens[k].Type
             \/ G[src.Rule].right[src.RulePos + 1].tokenSubType = tokens[k].Type

\* item is the complete-advance of an item of an earlier-or-equal set whose
\* next symbol is the left side of a completed item of set k
IsCompleteAdvance(item, k) ==
    \E c \in Range(ItemsAt(chart, k)) :
        /\ c.RulePos = Len(G[c.Rule].right)
        /\ c.originatingIndex <= k
        /\ \E src \in Range(ItemsAt(chart, c.originatingIndex)) :
              /\ src.Rule = item.Rule
              /\ src.RulePos + 1 = item.RulePos
              /\ src.originatingIndex = item.originatingIndex
              /\ G[src.Rule].right[src.RulePos + 1] = G[c.Rule].left

\* C8: every item of every state set k is a seed or prediction (dot 0,
\* origin k), or the scan-advance of an item of set k-1 whose next terminal
\* matches token k-1, or the complete-advance of an item of an
\* earlier-or-equal set whose next symbol is the left side of a completed
\* item of set k.
C8_ItemsJustified ==
    \A k \in 0..(Len(chart) - 1) :
        \A item \in Range(ItemsAt(chart, k)) :
            \/ item.RulePos = 0 /\ item.originatingIndex = k
            \/ item.RulePos > 0 /\ IsScanAdvance(item, k)
            \/ item.RulePos > 0 /\ IsCompleteAdvance(item, k)

\* a returned chart with a set past 0 that holds items of the three kinds
C8_Witness ==
    /\ pc = "returned"
    /\ \E k \in 1..(Len(chart) - 1) :
          /\ \E item \in Range(ItemsAt(chart, k)) :
                item.cause = PREDICT_STATE /\ item.RulePos = 0
          /\ \E item \in Range(ItemsAt(chart, k)) :
                item.cause = SCAN_STATE /\ IsScanAdvance(item, k)
          /\ \E item \in Range(ItemsAt(chart, k)) :
                item.cause = COMPLETE_STATE /\ IsCompleteAdvance(item, k)

ProposedType(item) ==
    IF G[item.Rule].right[item.RulePos + 1].tokenSubType # Nil
    THEN G[item.Rule].right[item.RulePos + 1].tokenSubType
    ELSE G[item.Rule].right[item.RulePos + 1].tokenType

\* the items of set k with the dot before the end and a terminal next
Proposing(k) ==
    SelectSeq(ItemsAt(chart, k),
              LAMBDA item : /\ item.RulePos < Len(G[item.Rule].right)
                            /\ ~G[item.Rule].right[item.RulePos + 1].nt)

\* the value a context reference points to: none for nil, else the one record
ContextOf(ref) == IF ref = 0 THEN {} ELSE {ctxs[ref]}

LastTokenPos == IF Len(tokens) - 1 < 0 THEN 0 ELSE Len(tokens) - 1

\* the statement of C10 as written: the returned entries are exactly the
\* (type, context) pairs of all proposing items, so that two items proposing
\* one type with different contexts give two entries.
C10_AllPairs ==
    pc = "returned" =>
        {<<suggestions[i].TokenType, ContextOf(suggestions[i].ctx)>> : i \in DOMAIN suggestions}
          = {<<ProposedType(item), ContextOf(item.ctx)>> : item \in Range(Proposing(LastTokenPos))}

\* the proposing items that count: those that have not consumed k+1 terminals
Counted(k) ==
    SelectSeq(Proposing(k), LAMBDA item : item.terminalSymbolsConsumed # k + 1)

\* the positions in Counted(k) of the first item of each proposed type
FirstOfType(k) ==
    SelectSeq([i \in 1..Len(Counted(k)) |-> i],
              LAMBDA i : \A j \in 1..(i - 1) :
                  ProposedType(Counted(k)[j]) # ProposedType(Counted(k)[i]))

\* C10 (amended): the returned list has one entry per proposed type, in the
\* order of the first item proposing it, with that first item's context,
\* except for the metric identifier type, whose entry has no context; items
\* that have consumed k+1 terminals are left out.
C10_OneEntryPerType ==
    pc = "returned" =>
        suggestions =
            [i \in 1..Len(FirstOfType(LastTokenPos)) |->
                LET item == Counted(LastTokenPos)[FirstOfType(LastTokenPos)[i]]
                IN [TokenType |-> ProposedType(item),
                    ctx |-> IF ProposedType(item) = METRIC_ID THEN 0 ELSE item.ctx]]

\* two items of the last token's set propose the same type with different
\* contexts
C10_Witness ==
    /\ pc = "returned"
    /\ \E i, j \in DOMAIN Counted(LastTokenPos) :
          /\ i < j
          /\ ProposedType(Counted(LastTokenPos)[i]) = ProposedType(Counted(LastTokenPos)[j])
          /\ ContextOf(Counted(LastTokenPos)[i].ctx) # ContextOf(Counted(LastTokenPos)[j].ctx)

\* C11: when the set of the last token holds no item whose next symbol is a
\* terminal, the call ends normally and its list of suggestions is empty.
C11_NoContinuationNoSuggestions ==
    (pc \in {"returned", "panicked"} /\ Proposing(LastTokenPos) = << >>) =>
        (pc = "returned" /\ suggestions = << >>)

(***************************************************************************)
(* Selector queries on the promq grammar: one engine is asked for the      *)
(* suggestions at the end of prefixes of queries with label matchers.      *)
(***************************************************************************)
\* m1{a="x",b="y"}   m1{a="x"} + m2{b="y"}   sum(m2{b="y"})
SelectorTexts ==
    LET m1 == Lexeme(ID, "m1")
        m2 == Lexeme(ID, "m2")
        a == Lexeme(ID, "a")
        b == Lexeme(ID, "b")
        eq == Lexeme(OPERATOR, "=")
        x == Lexeme(STRING_T, "\"x\"")
        y == Lexeme(STRING_T, "\"y\"")
        lb == Lexeme(LEFT_BRACE, "{")
        rb == Lexeme(RIGHT_BRACE, "}")
        comma == Lexeme(COMMA, ",")
        plus == Lexeme(ARITHMETIC, "+")
        sum == Lexeme(AGGR_OP, "sum")
        lp == Lexeme(LEFT_PAREN, "(")
        rp == Lexeme(RIGHT_PAREN, ")")
    IN { <<m1, lb, a, eq, x, comma, b, eq, y, rb>>,
         <<m1, lb, a, eq, x, rb, plus, m2, lb, b, eq, y, rb>>,
         <<sum, lp, m2, lb, b, eq, y, rb, rp>> }

\* the texts before the cursor: the prefixes of at most n lexemes
SelectorQueries(n) ==
    UNION { { SubSeq(t, 1, k) : k \in 0..(IF Len(t) < n THEN Len(t) ELSE n) } :
            t \in SelectorTexts }

SelectorInit ==
    /\ g = "promq"
    /\ chart = NewEarleyParser(Rules(g)).chart
    /\ ctxs = NewEarleyParser(Rules(g)).ctxs
    /\ words = << >>
    /\ pc = "ready"
    /\ tokens = << >>
    /\ prevTokens = << >>
    /\ chartIndex = 0
    /\ setIndex = 0
    /\ suggestions = << >>
    /\ spent = 0
    /\ calls = 0
    /\ IndexInit
    /\ PrefixInit
    /\ CompleterInit

\* GenerateSuggestions with a selector query
GenerateSelectorSuggestions ==
    /\ pc \in {"ready", "returned"}
    /\ calls < MaxSelectorCalls
    /\ \E q \in SelectorQueries(MaxSelectorLen) : EnterParse(extractWords(q))
    /\ UNCHANGED completerVars

SelectorNext ==
    \/ GenerateSelectorSuggestions
    \/ Predict
    \/ Scan
    \/ Complete
    \/ NextToken
    \/ Return

SelectorSpec == SelectorInit /\ [][SelectorNext]_vars

(***************************************************************************)
(* The prompt asking the completer: Completer.Complete hands the text to   *)
(* GenerateSuggestions, which parses what precedes the word in progress    *)
(* and maps the suggested token types to matches from a scraped index.     *)
(***************************************************************************)
\* The number of calls of GenerateSuggestions by Completer.Complete.
MaxCompleterCalls == 2

\* the texts before the word in progress: they are empty or end with a
\* token separator, so getPrefix returns the word typed after them
TextsBeforeWord ==
    { q \in SelectorQueries(MaxSelectorLen) \cup
            { << Lexeme(ID, "m1"), Lexeme(LEFT_BRACKET, "[") >> } :
        q = << >> \/ q[Len(q)].Val \in PromQLTokenSeparators }

\* the words in progress at the cursor
TypedWords == {"", "m", "5"}

CompleterSpecInit ==
    /\ g = "promq"
    /\ chart = NewEarleyParser(Rules(g)).chart
    /\ ctxs = NewEarleyParser(Rules(g)).ctxs
    /\ words = << >>
    /\ pc = "ready"
    /\ tokens = << >>
    /\ prevTokens = << >>
    /\ chartIndex = 0
    /\ setIndex = 0
    /\ suggestions = << >>
    /\ spent = 0
    /\ calls = 0
    /\ \E n \in {0, Len(Scraped)} :
          /\ store = Scrape(NewIndex, SubSeq(Scraped, 1, n)).store
          /\ metricBloomFilter = Scrape(NewIndex, SubSeq(Scraped, 1, n)).metricBloomFilter
          /\ completed = store
          /\ inserted = Range(SubSeq(Scraped, 1, n))
    /\ metricNameMu = [writer |-> 0, readers |-> 0]
    /\ upc = [t \in Scrapers |-> "idle"]
    /\ series = [t \in Scrapers |-> NoSeries]
    /\ todo = [t \in Scrapers |-> {}]
    /\ rpc = "idle"
    /\ result = NoResult
    /\ errorLog = {}
    /\ PrefixInit
    /\ CompleterInit

\* Completer.Complete: an empty text before the cursor returns the empty
\* list, any other text goes to GenerateSuggestions, which cuts the word in
\* progress off, lexes the rest and enters the parse
CompleterComplete ==
    /\ pc \in {"ready", "returned"}
    /\ cpc \in {"idle", "done"}
    /\ \E q \in TextsBeforeWord : \E w \in TypedWords :
          IF q = << >> /\ w = ""
          THEN /\ matches' = << >>
               /\ cpc' = "done"
               /\ UNCHANGED <<autocompletePrefix, engineVars, indexVars, prefixVars>>
          ELSE /\ calls < MaxCompleterCalls
               /\ autocompletePrefix' = w
               /\ cpc' = "GenerateSuggestions"
               /\ EnterParse(extractWords(q))
               /\ UNCHANGED matches

\* GenerateSuggestions from the return of GetSuggestedTokenType on: the loop
\* over the suggestions builds the matches, Complete copies them out
ReturnMatches ==
    /\ cpc = "GenerateSuggestions"
    /\ pc = "returned"
    /\ LET r == matchLoop(store, ctxs, suggestions, autocompletePrefix, 1, << >>)
       IN IF r.panicked
          THEN /\ cpc' = "panicked"
               /\ UNCHANGED matches
          ELSE /\ cpc' = "done"
               /\ matches' = r.val
    /\ UNCHANGED <<autocompletePrefix, engineVars, indexVars, prefixVars>>

CompleterNext ==
    \/ CompleterComplete
    \/ Predict
    \/ Scan
    \/ Complete
    \/ NextToken
    \/ Return
    \/ ReturnMatches

CompleterSpec == CompleterSpecInit /\ [][CompleterNext]_vars

(***************************************************************************)
(* The loop of GenerateSuggestions on its own: it is handed every short    *)
(* list of contextual tokens, with and without a context.                  *)
(***************************************************************************)
\* The number of suggested token types handed to the loop.
MaxSuggested == 2

\* the contexts the suggested types point to: one without a metric, one
\* with a metric, one with a metric and a label
SuggestedContexts ==
    << EmptyContext,
       [EmptyContext EXCEPT !.metric = "m1"],
       [EmptyContext EXCEPT !.metric = "m1", !.metricLabel = "a"] >>

\* ContextualToken values: a token type with a context or with none (0)
ContextualTokens ==
    [TokenType : {METRIC_LABEL_SUBTYPE, STRING_T, METRIC_ID, AGGR_OP},
     ctx : 0..Len(SuggestedContexts)]

\* GetSuggestedTokenType has returned a list of suggested types
Suggested ==
    /\ cpc \in {"idle", "done"}
    /\ \E n \in 0..MaxSuggested : \E list \in [1..n -> ContextualTokens] :
          suggestions' = list
    /\ \E w \in TypedWords : autocompletePrefix' = w
    /\ ctxs' = SuggestedContexts
    /\ pc' = "returned"
    /\ cpc' = "GenerateSuggestions"
    /\ UNCHANGED <<g, chart, words, tokens, prevTokens, chartIndex, setIndex, spent,
                   calls, matches, indexVars, prefixVars>>

MatchNext ==
    \/ Suggested
    \/ ReturnMatches

MatchSpec == CompleterSpecInit /\ [][MatchNext]_vars

(***************************************************************************)
(* The extractor of the suggested types on its own: it is an exported      *)
(* method of the chart, so it is also applied to state sets put together   *)
(* by hand, whose items carry any count of consumed terminals.             *)
(***************************************************************************)
\* the highest index of a state set put together by hand
MaxSetIndex == 1

\* the number of items offered to such a state set
MaxSetItems == 2

\* EarleyItem values of the set k: any rule of the grammar with the dot at
\* any position, having consumed no terminal or k+1 of them
ItemsOfSet(k) ==
    { [id |-> NoId, Rule |-> r, RulePos |-> p, originatingIndex |-> 0,
       cause |-> SCAN_STATE, from |-> << >>, terminalSymbolsConsumed |-> n, ctx |-> 0] :
          r \in 1..Len(G), p \in 0..3, n \in {0, k + 1} }

\* a call of GetValidTerminalTypesAtStateSet(k) on a chart whose set k holds
\* the given items
ValidTerminalTypesAt ==
    /\ pc = "ready"
    /\ \E k \in 0..MaxSetIndex : \E n \in 1..MaxSetItems :
       \E list \in [1..n -> {item \in ItemsOfSet(k) : item.RulePos <= Len(G[item.Rule].right)}] :
          LET c == resizeChart(initializeChart(G), k + 1)
              c2 == [c EXCEPT ![k + 1] = AddAll([NewStateSet EXCEPT !.stateNo = k], list)]
          IN /\ chart' = c2
             /\ tokens' = extractWords([i \in 1..k |-> CHOOSE l \in Alphabet(g) : TRUE])
             /\ suggestions' = GetValidTerminalTypesAtStateSet(G, c2, k)
    /\ pc' = "returned"
    /\ UNCHANGED <<g, ctxs, words, prevTokens, chartIndex, setIndex, spent, calls,
                   indexVars, prefixVars, completerVars>>

TypesNext == ValidTerminalTypesAt

TypesSpec == Init /\ [][TypesNext]_vars

(***************************************************************************)
(* The lexer adapter on its own, on queries in which the lexer reports an  *)
(* error after good tokens and lexes the rest of the string when handed it *)
(* alone.                                                                  *)
(***************************************************************************)
\* the number of lexemes of a query handed to extractWords
MaxLexemes == 4

\* the queries handed to extractWords
LexQueries ==
    UNION { [1..k -> {Lexeme(ID, "m"), Lexeme(LEFT_BRACE, "{"), ContextLexeme, BadLexeme}] :
               k \in 0..MaxLexemes }

\* extractWords(query) has returned the tokens of a query
ExtractedWords ==
    /\ pc = "ready"
    /\ \E q \in LexQueries : tokens' = extractWords(q)
    /\ pc' = "lexed"
    /\ UNCHANGED <<g, chart, ctxs, words, prevTokens, chartIndex, setIndex, suggestions,
                   spent, calls, indexVars, prefixVars, completerVars>>

LexNext == ExtractedWords

LexSpec == Init /\ [][LexNext]_vars

\* the number of lexemes of the query of the call, its EOF token left out
Lexemes == Len(tokens) - 1

\* the positions of the left brace the end of the query is inside of
OpenBrace ==
    { i \in 2..Lexemes : /\ tokens[i].Type = LEFT_BRACE
                         /\ \A j \in i..Lexemes : tokens[j].Type # RIGHT_BRACE }

\* the metric of the selector the end of the query is inside of
SelectorMetric == tokens[(CHOOSE i \in OpenBrace : TRUE) - 1].Val

HeldContexts ==
    UNION { { chart[k].items[i].ctx : i \in 1..Len(chart[k].items) } :
            k \in 1..Len(chart) } \ {0}

\* C13: the context an inserted item refers to keeps its metric, its label
\* and its observed values in every step.
C13_ContextNeverMutated ==
    [][\A r \in HeldContexts : ctxs'[r] = ctxs[r]]_vars

\* the item of the chart with the id <<set, index>>
ItemById(id) == chart[id[1] + 1].items[id[2] + 1]

C19_TokensEndWithEof ==
    pc # "ready" => (Len(tokens) > 0 /\ tokens[Len(tokens)].Type = EOF)

(***************************************************************************)
(* The metric index.                                                       *)
(***************************************************************************)
\* C15: every step leaves in the result of every read what the read held
\* before: metric names, label keys of a metric, values of a label.
C15_IndexOnlyGrows ==
    [][/\ GetMetricNames(store) \subseteq GetMetricNames(store')
       /\ \A n \in MetricNames :
              GetStoredDimensionsForMetric(store, n)
                  \subseteq GetStoredDimensionsForMetric(store', n)
       /\ \A n \in MetricNames : \A l \in Dimensions :
              GetStoredValuesForMetricAndDimension(store, n, l)
                  \subseteq GetStoredValuesForMetricAndDimension(store', n, l)]_vars

\* a read returns two values of one label: the second series of the metric
\* was inserted after the first
C15_Witness ==
    /\ rpc = "RUnlock"
    /\ result.kind = "values"
    /\ result.value = {"x", "y"}

\* C16: a call of UpdateMetric with a series that was inserted before ends
\* at the membership check, and neither the call nor the check changes the
\* store or the filter.
C16_UpdateIdempotent ==
    [][\A t \in Scrapers :
          /\ (upc[t] = "idle" /\ upc'[t] # "idle") =>
                (store' = store /\ metricBloomFilter' = metricBloomFilter)
          /\ (upc[t] = "isMetricPresent" /\ series[t] \in inserted
                /\ upc'[t] # "isMetricPresent") =>
                (/\ upc'[t] = "idle"
                 /\ store' = store
                 /\ metricBloomFilter' = metricBloomFilter)]_vars

\* UpdateMetric was called with a series that has been inserted
C16_Witness ==
    \E t \in Scrapers :
        /\ upc[t] = "isMetricPresent"
        /\ series[t] \in inserted
        /\ \A l \in DOMAIN series[t] \ {MetricName} :
              series[t][l] \in
                  GetStoredValuesForMetricAndDimension(store, series[t][MetricName], l)

\* C17: what a read returns is what the read returns from the store as the
\* last finished UpdateMetric left it, and no UpdateMetric is inside its
\* insertion while the read holds the lock.
C17_ReadsSeeWholeInsertions ==
    rpc = "RUnlock" =>
        /\ result.value = Read(completed, result.kind, result.metric, result.dimension)
        /\ \A t \in Scrapers : upc[t] \notin {"insert", "labels"}

\* a read returns the labels of a metric while a scraper is between its
\* membership check and its Lock
C17_Witness ==
    /\ rpc = "RUnlock"
    /\ result.kind = "dimensions"
    /\ result.value # {}
    /\ \E t \in Scrapers : upc[t] = "Lock"

\* the label set holds a metric name
Named(ls) == MetricName \in DOMAIN ls

\* C18: a series without a metric name never gets past the name lookup of
\* UpdateMetric: the call returns at it with the store and the filter as
\* they were, and a series with a name whose hash the filter does not hold
\* goes on to its insertion afterwards as before.
C18_NamelessIgnored ==
    /\ [](\A t \in Scrapers :
             upc[t] \in {"Lock", "insert", "labels"} => Named(series[t]))
    /\ [](\A m \in inserted : Named(m))
    /\ [][\A t \in Scrapers :
             (upc[t] = "isMetricPresent" /\ upc'[t] # "isMetricPresent") =>
                 /\ ~Named(series[t]) =>
                       (/\ upc'[t] = "idle"
                        /\ store' = store
                        /\ metricBloomFilter' = metricBloomFilter)
                 /\ (Named(series[t]) /\ Hash(series[t]) \notin metricBloomFilter) =>
                       upc'[t] = "Lock"]_vars

\* a series with a name is being inserted after a series without a name was
\* reported
C18_Witness ==
    /\ errorLog # {}
    /\ \E t \in Scrapers : upc[t] = "labels" /\ todo[t] = {} /\ series[t] \notin inserted

(***************************************************************************)
(* The completion prefix.                                                  *)
(***************************************************************************)
\* the text before the cursor
Typed == SubSeq(query, 1, pos)

\* where the longest suffix of the text without separator starts: after the
\* last separator, or at the start of the text
CleanFrom ==
    CHOOSE k \in 0..Len(Typed) :
        /\ \A j \in (k + 1)..Len(Typed) : Typed[j] \notin PromQLTokenSeparators
        /\ k = 0 \/ Typed[k] \in PromQLTokenSeparators

\* C20: for every query and cursor getPrefix returns the longest suffix of
\* the text before the cursor that holds no separator.
C20_PrefixIsLongestCleanSuffix ==
    /\ ~prefix.panicked
    /\ prefix.val = string(SubSeq(Typed, CleanFrom + 1, Len(Typed)))

(***************************************************************************)
(* Repeated calls.                                                         *)
(***************************************************************************)
\* what a list of suggestions says: the token types with the contexts the
\* references stand for on the heap h
Content(list, h) ==
    [i \in 1..Len(list) |->
        <<list[i].TokenType, IF list[i].ctx = 0 THEN {} ELSE {h[list[i].ctx]}>>]

Values(list) == { list[i].Value : i \in 1..Len(list) }

\* C22: Completer.Complete on the empty text with the cursor at 0 returns the
\* suggestions of chart position 0, among them every aggregator and every
\* metric name of the index, and not an empty list.
C22_EmptyQuerySuggestsStart ==
    [][(cpc \in {"idle", "done"} /\ cpc' = "done") =>
          (/\ matches' # << >>
           /\ aggregators \cup GetMetricNames(store) \subseteq Values(matches'))]_vars

\* C23: the list GenerateSuggestions returns is sorted by value in descending
\* byte order, whatever token types were suggested and in whatever order.
C23_MatchesSortedDescending ==
    \A i \in 1..Len(matches) : \A j \in (i + 1)..Len(matches) :
        ~lessBytes(Bytes(matches[i].Value), Bytes(matches[j].Value))

\* a call returned metric names of the index among matches of other kinds,
\* and the suggested types were not in the order of their values
C23_Witness ==
    /\ cpc = "done"
    /\ Cardinality({ matches[i].Kind : i \in 1..Len(matches) }) >= 2
    /\ \E i \in 1..Len(matches) : matches[i].Kind = "metric-id"
    /\ matchLoop(store, ctxs, suggestions, autocompletePrefix, 1, << >>).val = matches
    /\ \E i \in 1..Len(suggestions) : \E j \in (i + 1)..Len(suggestions) :
          /\ suggestions[i].TokenType = AGGR_OP
          /\ suggestions[j].TokenType = METRIC_ID

\* the state sets of the chart other than set k are left as they are
OnlySetChanges(k) ==
    /\ Len(chart') = Len(chart)
    /\ \A j \in 0..(Len(chart) - 1) : j # k => chart'[j + 1] = chart[j + 1]

\* C24: while set k is processed its items are handled one by one in
\* insertion order: a step handles the item after the one handled before and
\* appends what it adds; predict and complete add to set k only, scan to set
\* k+1 only; the pass ends when every item of set k, those added during the
\* pass included, was handled, and the next pass starts at the first item.
C24_PassInInsertionOrder ==
    [][(pc = "parse" /\ pc' = "parse") =>
         LET k == chartIndex
             before == ItemsAt(chart, k)
             after == ItemsAt(chart', k)
         IN IF chartIndex' = k
            THEN /\ setIndex < Len(before)
                 /\ setIndex' = setIndex + 1
                 /\ Len(after) >= Len(before)
                 /\ SubSeq(after, 1, Len(before)) = before
                 /\ IF ~isCompleted(G, before[setIndex + 1])
                       /\ isTerminal(GetRightSymbolByRulePos(G, before[setIndex + 1]))
                    THEN OnlySetChanges(k + 1)
                    ELSE OnlySetChanges(k)
            ELSE /\ chartIndex' = k + 1
                 /\ setIndex = Len(before)
                 /\ setIndex' = 0
                 /\ chart' = chart]_vars

\* the pass over a set after the first has handled every item, one of them
\* predicted during the pass, a scan of the pass before having filled the set
C24_Witness ==
    /\ pc = "parse"
    /\ chartIndex >= 1
    /\ chartIndex < Len(tokens)
    /\ setIndex = Len(ItemsAt(chart, chartIndex))
    /\ \E i \in 1..setIndex :
          /\ ItemsAt(chart, chartIndex)[i].cause = PREDICT_STATE
          /\ ItemsAt(chart, chartIndex)[i].originatingIndex = chartIndex
    /\ \E i \in 1..setIndex : ItemsAt(chart, chartIndex)[i].cause = SCAN_STATE
    /\ \E i \in 1..setIndex : ItemsAt(chart, chartIndex)[i].cause = COMPLETE_STATE

\* the tokens at Go index i of both lists have the same value and positions
SameToken(A, B, i) ==
    /\ A[i + 1].Val = B[i + 1].Val
    /\ A[i + 1].StartPos = B[i + 1].StartPos
    /\ A[i + 1].EndPos = B[i + 1].EndPos

\* the largest L such that the tokens of A and B agree at every index below L
LongestCommon(A, B) ==
    LET shorter == IF Len(A) < Len(B) THEN Len(A) ELSE Len(B)
        agree(L) == \A i \in 0..(L - 1) : SameToken(A, B, i)
    IN CHOOSE L \in 0..shorter : agree(L) /\ \A M \in (L + 1)..shorter : ~agree(M)

\* C25: at the entry of a parse Tokens.Compare of the tokens of the parse
\* before and the new tokens gives the length of their longest common prefix.
C25_CompareIsCommonPrefixLength ==
    [][(pc # "parse" /\ pc' = "parse") =>
          Compare(words, tokens') = LongestCommon(words, tokens')]_vars

\* a fresh empty state set put at index j
FreshSetAt(j) == [stateNo |-> j, items |-> << >>, itemSet |-> {}]

\* C26: invalidateStartingAt(k), called at the entry of a re-parse with k one
\* past the common prefix, replaces every state set at index k and above by a
\* fresh empty set and leaves the sets 0..k-1, items and order, as they were.
C26_InvalidateFrame ==
    [][(pc # "parse" /\ pc' = "parse") =>
          LET k == LongestCommon(words, tokens') + 1
          IN /\ Len(chart') >= Len(chart)
             /\ \A j \in 0..(Len(chart) - 1) :
                   chart'[j + 1] = IF j >= k THEN FreshSetAt(j) ELSE chart[j + 1]]_vars

\* a re-parse was entered after a common prefix of at least one token; the
\* set the parse resumes at is kept with its items, the set after it, which
\* the longer parse before had filled, is empty
C26_Witness ==
    /\ pc = "parse"
    /\ calls >= 2
    /\ setIndex = 0
    /\ chartIndex >= 1
    /\ chartIndex = LongestCommon(prevTokens, tokens)
    /\ Len(prevTokens) > chartIndex + 2
    /\ ItemsAt(chart, chartIndex) # << >>
    /\ ItemsAt(chart, chartIndex + 1) = << >>
    /\ ItemsAt(chart, chartIndex + 2) = << >>

\* the step handles an item of set k whose next symbol is a terminal
ScanStep ==
    /\ pc = "parse"
    /\ chartIndex < Len(tokens)
    /\ setIndex < Len(ItemsAt(chart, chartIndex))
    /\ setIndex' = setIndex + 1
    /\ CurrentItem.RulePos < Len(G[CurrentItem.Rule].right)
    /\ ~G[CurrentItem.Rule].right[CurrentItem.RulePos + 1].nt

\* the terminal after the dot of the item takes the type of token k
TokenMatches ==
    LET sym == G[CurrentItem.Rule].right[CurrentItem.RulePos + 1]
        type == tokens[chartIndex + 1].Type
    IN sym.tokenType = type \/ sym.tokenSubType = type

\* C27: scanning an item of set k whose next terminal matches token k appends
\* to set k+1 the item of the same rule and origin with the dot moved on by
\* one, cause scan and one more consumed terminal; set k gains nothing.
C27_ScanAdvancesIntoNextSet ==
    [][(ScanStep /\ TokenMatches /\ chartIndex + 1 < Len(chart)) =>
          LET next == ItemsAt(chart', chartIndex + 1)
              added == next[Len(next)]
          IN /\ chart'[chartIndex + 1] = chart[chartIndex + 1]
             /\ Len(next) = Len(ItemsAt(chart, chartIndex + 1)) + 1
             /\ SubSeq(next, 1, Len(next) - 1) = ItemsAt(chart, chartIndex + 1)
             /\ added.Rule = CurrentItem.Rule
             /\ added.RulePos = CurrentItem.RulePos + 1
             /\ added.originatingIndex = CurrentItem.originatingIndex
             /\ added.cause = SCAN_STATE
             /\ added.terminalSymbolsConsumed = CurrentItem.terminalSymbolsConsumed + 1]_vars

\* a set after the first holds a scan item whose origin is an earlier set
\* than the one it was scanned from
C27_Witness ==
    \E k \in 2..(Len(chart) - 1) : \E i \in 1..Len(ItemsAt(chart, k)) :
        /\ ItemsAt(chart, k)[i].cause = SCAN_STATE
        /\ ItemsAt(chart, k)[i].originatingIndex < k - 1
        /\ ItemsAt(chart, k)[i].terminalSymbolsConsumed >= 2

\* C28: a scan whose item does not match the type of the token, or that has
\* no set k+1 to add to, changes nothing: the chart and every context are as
\* before.
C28_FailedScanChangesNothing ==
    [][ScanStep =>
          /\ (~TokenMatches => chart' = chart /\ ctxs' = ctxs)
          /\ LET short == [chart |-> SubSeq(chart, 1, chartIndex + 1), ctxs |-> ctxs]
             IN scan(G, short, CurrentItem, chartIndex, << CurrentItem.id >>,
                     tokens[chartIndex + 1]) = short]_vars

\* the pass over a set with a scan item that holds a context has ended on a
\* token that none of its scan items takes: the next set is empty
C28_Witness ==
    /\ pc = "parse"
    /\ chartIndex >= 1
    /\ chartIndex < Len(tokens)
    /\ setIndex = Len(ItemsAt(chart, chartIndex))
    /\ ItemsAt(chart, chartIndex + 1) = << >>
    /\ \E i \in 1..setIndex :
          LET item == ItemsAt(chart, chartIndex)[i]
          IN /\ item.RulePos < Len(G[item.Rule].right)
             /\ ~G[item.Rule].right[item.RulePos + 1].nt
             /\ item.ctx # 0

\* the step handles an item of set k whose next symbol is a non-terminal
PredictStep ==
    /\ pc = "parse"
    /\ chartIndex < Len(tokens)
    /\ setIndex < Len(ItemsAt(chart, chartIndex))
    /\ setIndex' = setIndex + 1
    /\ CurrentItem.RulePos < Len(G[CurrentItem.Rule].right)
    /\ G[CurrentItem.Rule].right[CurrentItem.RulePos + 1].nt

\* C29: after predict on an item of set k whose next symbol is the
\* non-terminal Y, set k holds for every rule with Y on the left the item
\* (rule, dot 0, origin k); the items the step appends are of rules of Y not
\* in the set before, with cause predict and the context of the predicting
\* item; no other set changes.
C29_PredictAddsRulesOfNextSymbol ==
    [][PredictStep =>
          LET k == chartIndex
              Y == G[CurrentItem.Rule].right[CurrentItem.RulePos + 1]
              before == ItemsAt(chart, k)
              after == ItemsAt(chart', k)
              has(items, r) == \E i \in 1..Len(items) :
                                  /\ items[i].Rule = r
                                  /\ items[i].RulePos = 0
                                  /\ items[i].originatingIndex = k
          IN /\ \A r \in 1..Len(G) : G[r].left = Y => has(after, r)
             /\ SubSeq(after, 1, Len(before)) = before
             /\ \A i \in (Len(before) + 1)..Len(after) :
                   /\ G[after[i].Rule].left = Y
                   /\ after[i].RulePos = 0
                   /\ after[i].originatingIndex = k
                   /\ after[i].cause = PREDICT_STATE
                   /\ after[i].ctx = CurrentItem.ctx
                   /\ ~has(before, after[i].Rule)
             /\ OnlySetChanges(k)]_vars

\* a set after the first holds two items predicted there for one
\* non-terminal by an item that has a context
C29_Witness ==
    /\ pc = "parse"
    /\ chartIndex >= 1
    /\ \E i, j \in 1..Len(ItemsAt(chart, chartIndex)) :
          LET a == ItemsAt(chart, chartIndex)[i]
              b == ItemsAt(chart, chartIndex)[j]
          IN /\ i < j
             /\ a.cause = PREDICT_STATE /\ b.cause = PREDICT_STATE
             /\ a.originatingIndex = chartIndex /\ b.originatingIndex = chartIndex
             /\ G[a.Rule].left = G[b.Rule].left
             /\ a.from = b.from
             /\ a.ctx # 0

\* the items of every set of the chart: the items Add is asked to add again
\* to their own set or to another one
Pool == UNION { Range(chart[j].items) : j \in 1..Len(chart) }

\* an item of the rule, dot and origin of x is in the list
Occurs(items, x) ==
    \E i \in 1..Len(items) :
        /\ items[i].Rule = x.Rule
        /\ items[i].RulePos = x.RulePos
        /\ items[i].originatingIndex = x.originatingIndex

\* C30: Add of an item whose rule, dot and origin occur in the set returns
\* false and leaves the set as it is; Add of an item with a new triple
\* returns true and appends the item at the end.
C30_AddRefusesDuplicates ==
    \A j \in 1..Len(chart) : \A x \in Pool :
        LET s == chart[j]
            t == Add(s, x)
        IN IF Occurs(s.items, x)
           THEN /\ ~AddReturns(s, x)
                /\ t.items = s.items
           ELSE /\ AddReturns(s, x)
                /\ Len(t.items) = Len(s.items) + 1
                /\ SubSeq(t.items, 1, Len(s.items)) = s.items
                /\ [t.items[Len(t.items)] EXCEPT !.id = x.id] = x

\* predict met a rule that was in the set already: the set after the first
\* holds an item whose next non-terminal is the left side of its own rule,
\* predicted at this set, and the pass has handled it
C30_Witness ==
    /\ pc = "parse"
    /\ chartIndex >= 1
    /\ \E i \in 1..setIndex :
          LET item == ItemsAt(chart, chartIndex)[i]
          IN /\ i <= Len(ItemsAt(chart, chartIndex))
             /\ item.originatingIndex = chartIndex
             /\ item.RulePos = 0
             /\ G[item.Rule].right # << >>
             /\ G[item.Rule].right[1] = G[item.Rule].left
    /\ \E x \in Pool : ~Occurs(ItemsAt(chart, chartIndex), x)

\* the values of the tokens before position k: the tokens an item of set k
\* can have been derived from
ScannedBefore(k) == { words[i].Val : i \in 1..(IF k < Len(words) THEN k ELSE Len(words)) }

\* C31: every non-null field of the context of an item of set k comes from
\* a token scanned on the way to that item, that is from a token before
\* position k; no field holds the value of a token scanned later or elsewhere.
C31_ContextFromOwnDerivation ==
    \A k \in 0..(Len(chart) - 1) : \A item \in Range(ItemsAt(chart, k)) :
        item.ctx # 0 =>
            LET c == ctxs[item.ctx]
            IN /\ c.metric # Nil => c.metric \in ScannedBefore(k)
               /\ c.metricLabel # Nil => c.metricLabel \in ScannedBefore(k)
               /\ c.metricLabelValues \subseteq ScannedBefore(k)

\* the suggestion is a label name or a label value with no context, or with
\* a context that has no metric
WithoutMetric(s) ==
    /\ s.TokenType \in {METRIC_LABEL_SUBTYPE, STRING_T}
    /\ \A c \in ContextOf(s.ctx) : c.metric = Nil

FirstProposing(t) ==
    LET items == Counted(LastTokenPos)
    IN items[CHOOSE i \in 1..Len(items) :
                /\ ProposedType(items[i]) = t
                /\ \A j \in 1..(i - 1) : ProposedType(items[j]) # t]

\* the token types the items of the last token's set propose
ProposedTypes == { ProposedType(item) : item \in Range(Counted(LastTokenPos)) }

\* several items of the last token's set propose the type t with different
\* contexts
SeveralContexts(t) ==
    \E a, b \in Range(Counted(LastTokenPos)) :
        /\ ProposedType(a) = t
        /\ ProposedType(b) = t
        /\ a.ctx # b.ctx

\* C33: no token type has two entries in the returned list, and the
\* entry of a type that several items propose with different contexts carries
\* the context of the first item proposing it.
C33_FirstContextForEveryType ==
    pc = "returned" =>
        /\ \A i, j \in 1..Len(suggestions) :
              suggestions[i].TokenType = suggestions[j].TokenType => i = j
        /\ \A i \in 1..Len(suggestions) :
              /\ suggestions[i].TokenType \in ProposedTypes
              /\ SeveralContexts(suggestions[i].TokenType) =>
                    suggestions[i].ctx = FirstProposing(suggestions[i].TokenType).ctx

\* two items of the last token's set propose a type other than the metric
\* identifier, the first of them with a context and the later one with
\* another context or none
C33_Witness ==
    /\ pc = "returned"
    /\ \E i, j \in DOMAIN Counted(LastTokenPos) :
          /\ i < j
          /\ ProposedType(Counted(LastTokenPos)[i]) = ProposedType(Counted(LastTokenPos)[j])
          /\ ProposedType(Counted(LastTokenPos)[i]) # METRIC_ID
          /\ Counted(LastTokenPos)[i] = FirstProposing(ProposedType(Counted(LastTokenPos)[i]))
          /\ Counted(LastTokenPos)[i].ctx # 0
          /\ Counted(LastTokenPos)[i].ctx # Counted(LastTokenPos)[j].ctx

\* C34: the types of the returned list are exactly the types proposed by the
\* items of the set k that have a terminal after the dot and have not
\* consumed k+1 terminals: an item that has consumed k+1 terminals adds no
\* entry, every other item with a terminal next has its type in the list.
C34_ExactlyTheCountedTypes ==
    pc = "returned" =>
        /\ \A i \in 1..Len(suggestions) :
              \E item \in Range(Proposing(LastTokenPos)) :
                  /\ item.terminalSymbolsConsumed # LastTokenPos + 1
                  /\ ProposedType(item) = suggestions[i].TokenType
        /\ \A item \in Range(Proposing(LastTokenPos)) :
              item.terminalSymbolsConsumed # LastTokenPos + 1 =>
                  \E i \in 1..Len(suggestions) :
                      suggestions[i].TokenType = ProposedType(item)

\* the set of the last token holds an item with a terminal next that has
\* consumed k+1 terminals and whose type is not in the list, and another
\* item with a terminal next whose type is
C34_Witness ==
    /\ pc = "returned"
    /\ \E a, b \in Range(Proposing(LastTokenPos)) :
          /\ a.terminalSymbolsConsumed = LastTokenPos + 1
          /\ \A i \in 1..Len(suggestions) : suggestions[i].TokenType # ProposedType(a)
          /\ b.terminalSymbolsConsumed # LastTokenPos + 1
          /\ \E i \in 1..Len(suggestions) : suggestions[i].TokenType = ProposedType(b)

\* C35: every token extractWords returns carries the offsets of its lexeme in
\* the string handed in, also after the lexer reported an error and the rest
\* of the string was lexed again: lexemes being one character wide and none
\* being left out before the list ends, the j-th token starts at j-1 and ends
\* at j, and the EOF token starts and ends at its own position.
C35_AbsoluteOffsets ==
    \A j \in 1..Len(tokens) :
        /\ tokens[j].StartPos = j - 1
        /\ tokens[j].EndPos = IF tokens[j].Type = EOF THEN j - 1 ELSE j

\* the orders in which the series of S can be handed to UpdateMetric one
\* after another
Orders(S) ==
    { s \in [1..Cardinality(S) -> S] : \A i, j \in 1..Cardinality(S) : s[i] = s[j] => i = j }

\* the reads of the two stores return the same
SameIndex(st, st2) ==
    /\ GetMetricNames(st) = GetMetricNames(st2)
    /\ \A n \in MetricNames :
          GetStoredDimensionsForMetric(st, n) = GetStoredDimensionsForMetric(st2, n)
    /\ \A n \in MetricNames : \A l \in Dimensions :
          GetStoredValuesForMetricAndDimension(st, n, l)
              = GetStoredValuesForMetricAndDimension(st2, n, l)

\* the index is the one that calls of UpdateMetric made one after another, in
\* some order, with the series inserted so far leave behind
Sequential ==
    \E s \in Orders(inserted) :
        /\ SameIndex(store, Scrape(NewIndex, s).store)
        /\ metricBloomFilter = Scrape(NewIndex, s).metricBloomFilter

\* C36: whenever no call of UpdateMetric is in progress, the index equals the
\* result of making the calls that inserted a series one after another in
\* some order (a call that returned at the membership check or at the name
\* lookup changes nothing in either case).
C36_ConcurrentAsSequential ==
    (\A t \in Scrapers : upc[t] = "idle") => Sequential

\* the same, for series no two of which have the same hash
C36_WithoutCollision ==
    ((\A t \in Scrapers : upc[t] = "idle")
        /\ \A a, b \in inserted : Hash(a) = Hash(b) => a = b) => Sequential

\* C37: what the completer gets when it ranges over the set of label values
\* a read returned is what the set held when the read returned, whatever
\* UpdateMetric did in between.
C37_ValuesAreSnapshot ==
    [][(rpc = "range" /\ rpc' # "range")
          => (rpc' = "ranged" /\ result'.value = result.value)]_vars

\* the item at insertion index i (from 0) of set k refers back only to items
\* of earlier sets and to items of its own set inserted before it
RefersBack(k, i) ==
    LET from == ItemsAt(chart, k)[i + 1].from
    IN \A n \in 1..Len(from) :
          \/ from[n][1] < k
          \/ from[n][1] = k /\ from[n][2] < i

\* C38: the back-references of the items form no cycle: every item an item
\* refers to lies in a set of lower index, or in the same set at an earlier
\* insertion index.
C38_BackReferencesAcyclic ==
    \A k \in 0..(Len(chart) - 1) :
        \A i \in 0..(Len(ItemsAt(chart, k)) - 1) : RefersBack(k, i)

\* a set holds a completed item that refers back to a completed item of its
\* own set and to a waiting item of an earlier set, next to a predicted item
\* that refers to an item of its own set
C38_Witness ==
    \E k \in 1..(Len(chart) - 1) :
        /\ \E i \in 1..Len(ItemsAt(chart, k)) :
              /\ ItemsAt(chart, k)[i].cause = COMPLETE_STATE
              /\ Len(ItemsAt(chart, k)[i].from) = 2
              /\ ItemsAt(chart, k)[i].from[1][1] = k
              /\ ItemsAt(chart, k)[i].from[2][1] < k
        /\ \E i \in 1..Len(ItemsAt(chart, k)) :
              /\ ItemsAt(chart, k)[i].cause = PREDICT_STATE
              /\ Len(ItemsAt(chart, k)[i].from) = 1
              /\ ItemsAt(chart, k)[i].from[1][1] = k

RECURSIVE runes(_)
\* []rune(s) of a Go string given by its bytes; a byte that starts no rune
\* of the queries decodes to the replacement character
runes(bytes) ==
    IF bytes = << >> THEN << >>
    ELSE IF Len(bytes) >= 2 /\ SubSeq(bytes, 1, 2) = utf8("U+00E9")
    THEN <<"U+00E9">> \o runes(SubSeq(bytes, 3, Len(bytes)))
    ELSE IF Head(bytes) \in {"0xC3", "0xA9"}
    THEN <<"U+FFFD">> \o runes(Tail(bytes))
    ELSE <<Head(bytes)>> \o runes(Tail(bytes))

\* the text after the cursor
Rest == SubSeq(query, pos + 1, Len(query))

\* the text before the cursor ends with a separator
EndsWithSeparator == pos > 0 /\ query[pos] \in PromQLTokenSeparators

\* with s the text before the cursor, s' the text after it and prefix the
\* result of getPrefix(s): getPrefix(getPrefix(s) + s') and getPrefix(s + s')
\* both return, and return the same
SamePrefix ==
    /\ ~prefix.panicked
    /\ ~getPrefix(runes(prefix.val) \o Rest).panicked
    /\ ~getPrefix(query).panicked
    /\ getPrefix(runes(prefix.val) \o Rest).val = getPrefix(query).val

\* C39: for every s that ends with a separator and every s',
\* getPrefix(getPrefix(s) + s') = getPrefix(s + s').
C39_PrefixOfPrefix ==
    EndsWithSeparator => SamePrefix

\* the same, for strings of one-byte runes only
C39_OneByteRunes ==
    (EndsWithSeparator /\ \A i \in 1..Len(query) : Len(utf8(query[i])) = 1) => SamePrefix

\* the number of terminals left of the dot in the rule of an item
TerminalsLeftOfDot(item) ==
    Cardinality({p \in 1..item.RulePos : ~G[item.Rule].right[p].nt})

\* the count of an item as its cause gives it: none for a predicted item, one
\* more than the scanned item's after a scan, the waiting item's after a
\* complete; the items of the first set that no step made have none
CountByCause(item) ==
    CASE item.from = << >> -> 0
      [] item.cause = PREDICT_STATE -> 0
      [] item.cause = SCAN_STATE -> ItemById(item.from[1]).terminalSymbolsConsumed + 1
      [] OTHER -> ItemById(item.from[2]).terminalSymbolsConsumed

\* C40: the count of consumed terminals of every item of every set k is the
\* number of terminals left of the dot in its rule, is at most k minus the
\* origin of the item, and is the count its cause gives it.
C40_ConsumedTerminals ==
    \A k \in 0..(Len(chart) - 1) :
        \A i \in 1..Len(ItemsAt(chart, k)) :
            LET item == ItemsAt(chart, k)[i]
            IN /\ item.terminalSymbolsConsumed = TerminalsLeftOfDot(item)
               /\ item.terminalSymbolsConsumed <= k - item.originatingIndex
               /\ item.terminalSymbolsConsumed = CountByCause(item)

\* a set holds a completed item that has consumed a terminal and spans more
\* tokens than it has consumed terminals, and a scanned item that has
\* consumed two
C40_Witness ==
    \E k \in 0..(Len(chart) - 1) :
        /\ \E i \in 1..Len(ItemsAt(chart, k)) :
              /\ ItemsAt(chart, k)[i].cause = COMPLETE_STATE
              /\ ItemsAt(chart, k)[i].terminalSymbolsConsumed >= 1
              /\ ItemsAt(chart, k)[i].terminalSymbolsConsumed
                    < k - ItemsAt(chart, k)[i].originatingIndex
        /\ \E i \in 1..Len(ItemsAt(chart, k)) :
              /\ ItemsAt(chart, k)[i].cause = SCAN_STATE
              /\ ItemsAt(chart, k)[i].terminalSymbolsConsumed >= 2

====
